---- MODULE Spec2Model ----
(***************************************************************************)
(* A model of the ISMN metadata collection: sensor-file dialect detection  *)
(* and field extraction (filehandlers.py), the station directory scan and  *)
(* the fan-out / fan-in index build (filecollection.py), and the metadata  *)
(* csv round trip.                                                         *)
(*                                                                         *)
(* Numbers are kept in hundredths (the text "0.05" is the number 5), so    *)
(* that depths stay integers.  A metadata value is a tagged record, so     *)
(* that a string and a number are never the same value.                    *)
(***************************************************************************)
EXTENDS Integers, Sequences, FiniteSets, TLC

VARIABLES
    file,        \* SpecRead: the sensor file handed to DataFile(...)
    handler,     \* SpecRead: the outcome of DataFile.__init__ on it
    scan,        \* SpecScan: the locals of one running _read_station_dir
    build,       \* Spec: the locals of one running build_from_scratch
    recon,       \* SpecMeta, SpecMerge: the MetaData objects of one merge
    coll         \* SpecFilter, SpecQuery: a file collection and one call on it

vars == <<file, handler, scan, build, recon, coll>>

Idle == [pc |-> "idle"]

----------------------------------------------------------------------------
(* Small helpers *)

Max(a, b) == IF a >= b THEN a ELSE b
Min(a, b) == IF a <= b THEN a ELSE b
Abs(a) == IF a >= 0 THEN a ELSE 0 - a
Range(s) == {s[i] : i \in 1..Len(s)}

\* s[a:b] of Python, for 0 <= a: the elements with 0-based index a .. b-1
Slice(s, a, b) == SubSeq(s, a + 1, Min(b, Len(s)))

----------------------------------------------------------------------------
(* Metadata values, Depth, MetaVar, MetaData (ismn.meta) *)

Num(n) == [t |-> "num", n |-> n, s |-> ""]
Str(s) == [t |-> "str", n |-> 0, s |-> s]
Timestamp(n) == [t |-> "ts", n |-> n, s |-> ""]
NaN == [t |-> "nan", n |-> 0, s |-> ""]

NoDepth == <<>>
Depth(start, end) == <<start, end>>

encloses(a, b) == a[1] <= b[1] /\ a[2] >= b[2]
\* an overlap that is never less than one hundredth
overlap_at_least_one(a, b) == Max(1, Min(a[2], b[2]) - Max(a[1], b[1]))
overlap(a, b) == Max(0, Min(a[2], b[2]) - Max(a[1], b[1]))
overlaps(a, b) == Max(a[1], b[1]) <= Min(a[2], b[2])
length(a) == a[2] - a[1]
\* twice the distance between the midpoints of a and b
mid_distance(a, b) == Abs((a[1] + a[2]) - (b[1] + b[2]))

MetaVar(name, val, depth) == [name |-> name, val |-> val, depth |-> depth]

\* MetaVar.empty: the value is the null placeholder
empty(v) == v.val.t = "nan"

\* MetaData.keys(): the names in first-seen order
RECURSIVE keys(_)
keys(md) ==
    IF md = <<>> THEN <<>>
    ELSE LET front == keys(SubSeq(md, 1, Len(md) - 1))
             name == md[Len(md)].name
         IN IF name \in Range(front) THEN front ELSE Append(front, name)

contains(md, name) == \E i \in 1..Len(md) : md[i].name = name

\* the candidates MetaData holds for one name, in first-seen order
candidates(md, name) == SelectSeq(md, LAMBDA v : v.name = name)

\* MetaData.__getitem__
getitem(md, name) == candidates(md, name)[1]

val_of(md, name) == getitem(md, name).val
depth_of(md, name) == getitem(md, name).depth

\* a merge in which other's entries replace self's entries of the same name
merge_overwrite(self, other, exclude_empty) ==
    SelectSeq(self, LAMBDA v : \A i \in 1..Len(other) : other[i].name # v.name)
        \o (IF exclude_empty THEN SelectSeq(other, LAMBDA v : ~empty(v)) ELSE other)

\* MetaData.merge: the union, self's entries first
merge(self, other, exclude_empty) ==
    self \o (IF exclude_empty THEN SelectSeq(other, LAMBDA v : ~empty(v)) ELSE other)

\* the index in cs of the candidate that fits depth d best
best_candidate(cs, d) ==
    LET I == 1..Len(cs)
        tagged == {i \in I : cs[i].depth # NoDepth}
        encl == {i \in tagged : encloses(cs[i].depth, d)}
        over == {i \in tagged : overlaps(cs[i].depth, d)}
        first(S, better(_, _)) ==
            CHOOSE i \in S : \A j \in S \ {i} : better(i, j) \/ (~better(j, i) /\ i < j)
    IN IF tagged = {} THEN 1
       ELSE IF encl # {}
            THEN first(encl, LAMBDA i, j : length(cs[i].depth) < length(cs[j].depth))
       ELSE IF over # {}
            THEN first(over, LAMBDA i, j : overlap(cs[i].depth, d) > overlap(cs[j].depth, d))
       ELSE first(tagged, LAMBDA i, j : mid_distance(cs[i].depth, d) < mid_distance(cs[j].depth, d))

\* MetaData.best_meta_for_depth: one MetaVar per key
best_meta_for_depth(md, d) ==
    LET ks == keys(md)
    IN [k \in 1..Len(ks) |->
           LET cs == candidates(md, ks[k]) IN cs[best_candidate(cs, d)]]

\* MetaData.from_dict / MetaData([MetaVar(k, v) for k, v in d.items()])
from_dict(items) == [i \in 1..Len(items) |-> MetaVar(items[i][1], items[i][2], NoDepth)]

----------------------------------------------------------------------------
(* Lookup tables (ismn.tables / ismn.const) *)

CSV_META_TEMPLATE ==
    << <<"lc_2000", NaN>>, <<"lc_2005", NaN>>, <<"lc_2010", NaN>>,
       <<"lc_insitu", NaN>>, <<"climate_KG", NaN>>, <<"climate_insitu", NaN>>,
       <<"saturation", NaN>>, <<"clay_fraction", NaN>>, <<"sand_fraction", NaN>>,
       <<"silt_fraction", NaN>>, <<"organic_carbon", NaN>> >>

template(name) ==
    (CHOOSE i \in 1..Len(CSV_META_TEMPLATE) : CSV_META_TEMPLATE[i][1] = name)

VARIABLE_LUT == [sm |-> "soil_moisture", ts |-> "soil_temperature"]

----------------------------------------------------------------------------
(* Text tokens and their conversions *)

\* float(token): the number in hundredths
FloatText ==
    << <<"0.00", 0>>, <<"0.05", 5>>, <<"0.10", 10>>, <<"0.30", 30>>,
       <<"1.00", 100>>, <<"2", 200>>, <<"10", 1000>>, <<"45.50", 4550>>,
       <<"16.25", 1625>>, <<"300.00", 30000>> >>

is_float(tok) == \E i \in 1..Len(FloatText) : FloatText[i][1] = tok
float(tok) == FloatText[CHOOSE i \in 1..Len(FloatText) : FloatText[i][1] = tok][2]

\* pd.to_datetime(date + " " + time): days and minutes folded into one number
DateText == << <<"2017/01/01", 1>>, <<"2017/06/30", 2>>, <<"2017/12/31", 3>> >>
TimeText == << <<"00:00", 0>>, <<"12:00", 1>> >>

is_date(tok) == \E i \in 1..Len(DateText) : DateText[i][1] = tok
is_time(tok) == \E i \in 1..Len(TimeText) : TimeText[i][1] = tok
date_of(tok) == DateText[CHOOSE i \in 1..Len(DateText) : DateText[i][1] = tok][2]
time_of(tok) == TimeText[CHOOSE i \in 1..Len(TimeText) : TimeText[i][1] = tok][2]

\* pd.to_datetime(' '.join(tokens)) of at most two tokens
is_datetime(toks) ==
    \/ Len(toks) = 1 /\ is_date(toks[1])
    \/ Len(toks) = 2 /\ is_date(toks[1]) /\ is_time(toks[2])
to_datetime(toks) ==
    Timestamp(2 * date_of(toks[1]) + (IF Len(toks) = 2 THEN time_of(toks[2]) ELSE 0))

\* '_'.join(tokens)
RECURSIVE join(_)
join(toks) ==
    IF Len(toks) = 0 THEN ""
    ELSE IF Len(toks) = 1 THEN toks[1]
    ELSE toks[1] \o "_" \o join(Tail(toks))

----------------------------------------------------------------------------
(* StaticMetaFile: the station's attribute csv, as the rows pandas reads.  *)
(* A row: [quantity_name, source, value (text), from, to (hundredths)]     *)

Row(name, source, value, from, to) ==
    [quantity_name |-> name, source |-> source, value |-> value, from |-> from, to |-> to]

Failure(err) == [ok |-> FALSE, err |-> err, file_type |-> "undefined", metadata |-> <<>>]

rows_of(data, name) == SelectSeq(data, LAMBDA r : r.quantity_name = name)

\* StaticMetaFile._read_field
_read_field(data, fieldname, new_name) ==
    LET rs == rows_of(data, fieldname)
    IN [i \in 1..Len(rs) |->
           MetaVar(new_name,
                   IF rs[i].value = "" THEN NaN      \* an empty cell: pd.read_csv gives nan
                   ELSE IF is_float(rs[i].value) THEN Num(float(rs[i].value))
                   ELSE Str(rs[i].value),
                   Depth(rs[i].from, rs[i].to))]

\* the value of the first row of rs that names the provider, or the default
provider_value(rs, provider, default, as_int) ==
    LET hits == SelectSeq(rs, LAMBDA r : r.source = provider)
    IN IF Len(hits) = 0 THEN default
       ELSE IF as_int THEN Num(float(hits[1].value))
       ELSE Str(hits[1].value)

\* StaticMetaFile.read_metadata
static_read_metadata(data) ==
    LET lc == rows_of(data, "land cover classification")
        cl == rows_of(data, "climate classification")
        int_lc == SelectSeq(lc, LAMBDA r : r.source # "insitu")
        soil == << <<"saturation", "saturation">>, <<"clay_fraction", "clay fraction">>,
                   <<"sand_fraction", "sand fraction">>, <<"silt_fraction", "silt fraction">>,
                   <<"organic_carbon", "organic carbon">> >>
        field(i) ==
            LET vs == _read_field(data, soil[i][2], soil[i][1])
            IN IF Len(vs) > 0 THEN vs
               ELSE <<MetaVar(soil[i][1], CSV_META_TEMPLATE[template(soil[i][1])][2], NoDepth)>>
    IN IF Len(lc) = 0 \/ Len(cl) = 0 THEN Failure("KeyError")
       ELSE IF \E i \in 1..Len(int_lc) :
                  /\ int_lc[i].source \in {"CCI_landcover_2000", "CCI_landcover_2005",
                                           "CCI_landcover_2010"}
                  /\ ~is_float(int_lc[i].value)
            THEN Failure("ValueError")
       ELSE [ok |-> TRUE, err |-> "", file_type |-> "csv", metadata |->
               << MetaVar("lc_2000", provider_value(lc, "CCI_landcover_2000", NaN, TRUE), NoDepth),
                  MetaVar("lc_2005", provider_value(lc, "CCI_landcover_2005", NaN, TRUE), NoDepth),
                  MetaVar("lc_2010", provider_value(lc, "CCI_landcover_2010", NaN, TRUE), NoDepth),
                  MetaVar("lc_insitu", provider_value(lc, "insitu", NaN, FALSE), NoDepth),
                  MetaVar("climate_KG", provider_value(cl, "koeppen_geiger_2007", NaN, FALSE), NoDepth),
                  MetaVar("climate_insitu", provider_value(cl, "insitu", NaN, FALSE), NoDepth) >>
               \o field(1) \o field(2) \o field(3) \o field(4) \o field(5)]

----------------------------------------------------------------------------
(* DataFile: one sensor file.  A file is [path, fname, lines]: fname is    *)
(* the basename split on "_", lines are the lines of the file, each split  *)
(* on white space (an empty line is <<>>).                                 *)

\* the while loop of DataFile._read_lines, at counter i; the i of the result
\* is the counter the loop ended with
RECURSIVE read_loop(_, _, _, _)
read_loop(lines, i, last, scnd) ==
    IF last # <<>> /\ scnd # <<>>
    THEN [ok |-> TRUE, headr |-> lines[1], scnd |-> scnd, last |-> last, i |-> i]
    ELSE IF last = <<>> /\ i > Len(lines)
    THEN [ok |-> FALSE, headr |-> <<>>, scnd |-> <<>>, last |-> <<>>, i |-> i]    \* lines[-i]: IndexError
    ELSE IF scnd = <<>> /\ i + 1 > Len(lines)
    THEN [ok |-> FALSE, headr |-> <<>>, scnd |-> <<>>, last |-> <<>>, i |-> i]    \* lines[i]: IndexError
    ELSE read_loop(lines, i + 1,
                   IF last = <<>> THEN lines[Len(lines) - i + 1] ELSE last,
                   IF scnd = <<>> THEN lines[i + 1] ELSE scnd)

\* a reading that takes the line after line 0 and the last line as they are
_read_lines_as_they_are(lines) ==
    IF Len(lines) < 2
    THEN [ok |-> FALSE, headr |-> <<>>, scnd |-> <<>>, last |-> <<>>, i |-> 1]
    ELSE [ok |-> TRUE, headr |-> lines[1], scnd |-> lines[2], last |-> lines[Len(lines)], i |-> 2]

\* DataFile._read_lines
_read_lines(lines) ==
    IF Len(lines) = 0
    THEN [ok |-> FALSE, headr |-> <<>>, scnd |-> <<>>, last |-> <<>>, i |-> 1]    \* lines[0]: IndexError
    ELSE read_loop(lines, 1, <<>>, <<>>)

\* DataFile._get_elements_from_file
_get_elements_from_file(f) ==
    LET r == _read_lines(f.lines)
    IN [ok |-> r.ok, headr |-> r.headr, scnd |-> r.scnd, last |-> r.last, fname |-> f.fname]

\* the instrument and variable names both dialects take from the file name
instrument_of(fname) ==
    IF Len(fname) > 9 THEN join(Slice(fname, 6, Len(fname) - 2)) ELSE fname[7]
variable_of(fname) ==
    IF fname[4] \in DOMAIN VARIABLE_LUT THEN VARIABLE_LUT[fname[4]] ELSE fname[4]

\* DataFile._get_metadata_ceop_sep
_get_metadata_ceop_sep(el) ==
    LET headr == el.headr
        last == el.last
        fname == el.fname
    IN IF ~is_datetime(Slice(headr, 0, 2)) \/ ~is_datetime(Slice(last, 0, 2))
       THEN Failure("ValueError")
       ELSE IF ~is_float(fname[5]) \/ ~is_float(fname[6])
       THEN Failure("ValueError")
       ELSE IF ~is_float(headr[8]) \/ ~is_float(headr[9]) \/ ~is_float(headr[10])
       THEN Failure("ValueError")
       ELSE LET depth == Depth(float(fname[5]), float(fname[6]))
            IN [ok |-> TRUE, err |-> "", file_type |-> "ceop_sep", metadata |->
                 << MetaVar("network", Str(fname[2]), NoDepth),
                    MetaVar("station", Str(fname[3]), NoDepth),
                    MetaVar("variable", Str(variable_of(fname)), depth),
                    MetaVar("instrument", Str(instrument_of(fname)), depth),
                    MetaVar("timerange_from", to_datetime(Slice(headr, 0, 2)), NoDepth),
                    MetaVar("timerange_to", to_datetime(Slice(last, 0, 2)), NoDepth),
                    MetaVar("latitude", Num(float(headr[8])), NoDepth),
                    MetaVar("longitude", Num(float(headr[9])), NoDepth),
                    MetaVar("elevation", Num(float(headr[10])), NoDepth) >>]

\* DataFile._get_metadata_header_values
_get_metadata_header_values(el) ==
    LET headr == el.headr
        scnd == el.scnd
        last == el.last
        fname == el.fname
    IN IF ~is_datetime(Slice(scnd, 0, 2)) \/ ~is_datetime(Slice(last, 0, 2))
       THEN Failure("ValueError")
       ELSE IF Len(headr) < 8
       THEN Failure("IndexError")
       ELSE IF \E i \in 4..8 : ~is_float(headr[i])
       THEN Failure("ValueError")
       ELSE LET depth == Depth(float(headr[7]), float(headr[8]))
            IN [ok |-> TRUE, err |-> "", file_type |-> "header_values", metadata |->
                 << MetaVar("network", Str(headr[2]), NoDepth),
                    MetaVar("station", Str(headr[3]), NoDepth),
                    MetaVar("variable", Str(variable_of(fname)), depth),
                    MetaVar("instrument", Str(instrument_of(fname)), depth),
                    MetaVar("timerange_from", to_datetime(Slice(scnd, 0, 2)), NoDepth),
                    MetaVar("timerange_to", to_datetime(Slice(last, 0, 2)), NoDepth),
                    MetaVar("latitude", Num(float(headr[4])), NoDepth),
                    MetaVar("longitude", Num(float(headr[5])), NoDepth),
                    MetaVar("elevation", Num(float(headr[6])), NoDepth) >>]

\* a dispatch whose header_values bound is one token lower
dialect_below_13(n_headr, n_fname) ==
    IF n_fname = 5 /\ n_headr = 16 THEN "ceop"
    ELSE IF n_headr = 15 /\ n_fname >= 9 THEN "ceop_sep"
    ELSE IF n_headr < 13 /\ n_fname >= 9 THEN "header_values"
    ELSE "unknown"

\* a dispatch that takes a 14-token header for the header_values dialect
dialect_below_15(n_headr, n_fname) ==
    IF n_fname = 5 /\ n_headr = 16 THEN "ceop"
    ELSE IF n_headr = 15 /\ n_fname >= 9 THEN "ceop_sep"
    ELSE IF n_headr < 15 /\ n_fname >= 9 THEN "header_values"
    ELSE "unknown"

\* a dispatch that sends 15 header tokens to the header_values reader
dialect_header_only(n_headr, n_fname) ==
    IF n_fname = 5 /\ n_headr = 16 THEN "ceop"
    ELSE IF n_headr < 16 /\ n_fname >= 9 THEN "header_values"
    ELSE "unknown"

\* the dialect branch DataFile.read_metadata takes for the two token counts
dialect(n_headr, n_fname) ==
    IF n_fname = 5 /\ n_headr = 16 THEN "ceop"
    ELSE IF n_headr = 15 /\ n_fname >= 9 THEN "ceop_sep"
    ELSE IF n_headr < 14 /\ n_fname >= 9 THEN "header_values"
    ELSE "unknown"

\* DataFile._get_static_metadata_from_csv, csvs being the folder's csv files
_get_static_metadata_from_csv(csvs) ==
    IF Len(csvs) = 0
    THEN [ok |-> TRUE, err |-> "", file_type |-> "csv", metadata |-> from_dict(CSV_META_TEMPLATE)]
    ELSE static_read_metadata(csvs[1])

\* DataFile.read_metadata(static_meta=None, best_meta_for_sensor=True),
\* which DataFile.__init__ runs: a failure is the exception it raises
read_metadata(f, csvs) ==
    LET el == _get_elements_from_file(f)
        kind == dialect(Len(el.headr), Len(el.fname))
    IN IF ~el.ok THEN Failure("IOError")
       ELSE IF kind = "ceop" THEN Failure("RuntimeError")
       ELSE IF kind = "unknown" THEN Failure("IOError")
       ELSE LET own == IF kind = "ceop_sep" THEN _get_metadata_ceop_sep(el)
                       ELSE _get_metadata_header_values(el)
                static == _get_static_metadata_from_csv(csvs)
            IN IF ~own.ok THEN own
               ELSE IF ~static.ok THEN Failure(static.err)
               ELSE LET merged == merge(own.metadata, static.metadata, TRUE)
                    IN [own EXCEPT !.metadata =
                          best_meta_for_depth(merged, getitem(merged, "instrument").depth)]

----------------------------------------------------------------------------
(* Sample archive content *)

MaxBody == 3

\* a station attribute file
CsvGood ==
    << Row("land cover classification", "CCI_landcover_2010", "10", 0, 0),
       Row("land cover classification", "insitu", "grass", 0, 0),
       Row("climate classification", "koeppen_geiger_2007", "Dfb", 0, 0),
       Row("clay fraction", "HWSD", "0.30", 0, 30),
       Row("clay fraction", "HWSD", "0.10", 30, 100),
       Row("sand fraction", "HWSD", "0.05", 0, 30),
       Row("saturation", "HWSD", "0.30", 0, 30) >>

\* an attribute file with a clay fraction row for [0, 0.05] whose value cell
\* is empty
CsvGap == CsvGood \o << Row("clay fraction", "HWSD", "", 0, 5) >>

\* an attribute file without its climate classification rows
CsvMalformed ==
    << Row("land cover classification", "CCI_landcover_2010", "10", 0, 0) >>

\* the first n tokens of line, filled up with the token "x"
Pad(line, n) == [i \in 1..n |-> IF i <= Len(line) THEN line[i] ELSE "x"]

HeaderA ==
    <<"2017/01/01", "00:00", "2017/01/01", "00:00", "CSE", "NWA", "S1",
      "45.50", "16.25", "300.00", "0.00", "0.05", "0.30", "G", "M">>
HeaderB == <<"CSE", "NWB", "S2", "16.25", "45.50", "300.00", "0.05", "0.10", "Probe">>
HeaderBadFloat == <<"CSE", "NWB", "S2", "north", "45.50", "300.00", "0.05", "0.10", "Probe">>

HeaderLens == {0, 7, 8, 9, 13, 14, 15, 16}
Headers == {Pad(h, n) : h \in {HeaderA, HeaderB}, n \in HeaderLens} \cup {HeaderBadFloat}

Data1 == <<"2017/06/30", "12:00", "0.30", "G", "M">>
Data2 == <<"2017/12/31", "00:00", "0.10", "G", "M">>
BodyLines == {<<>>, Data1, Data2, <<"x", "y">>}
Bodies == UNION {[1..n -> BodyLines] : n \in 0..MaxBody}

Fname9 == <<"NWA", "NWA", "S1", "sm", "0.00", "0.05", "Probe", "20170101", "20171231.stm">>
Fname10 ==
    <<"NWB", "NWB", "S2", "p", "0.05", "0.10", "Cosmic", "Probe", "20170101", "20171231.stm">>
Fname9BadDepth == <<"NWA", "NWA", "S1", "sm", "top", "0.05", "Probe", "20170101", "20171231.stm">>
Fname8 == <<"NWA", "S1", "sm", "0.00", "0.05", "Probe", "20170101", "20171231.stm">>
Fname5 == <<"NWA", "S1", "sm", "20170101", "20171231.stm">>
Fnames == {Fname9, Fname10, Fname9BadDepth, Fname8, Fname5}

CsvFolders == {<<>>, <<CsvGood>>, <<CsvMalformed>>}

\* the sensor files DataFile is tried on: every header with every body, and the empty file
SensorFiles ==
    {[fname |-> fn, lines |-> <<h>> \o b, csvs |-> c] :
        fn \in Fnames, h \in Headers, b \in Bodies, c \in CsvFolders}
    \cup {[fname |-> fn, lines |-> <<>>, csvs |-> <<>>] : fn \in Fnames}

MaxFiles == 2

\* a data line of a ceop_sep file
DataA == Pad(<<"2017/12/31", "00:00">>, 15)

SensorFile(path, fname, lines) == [path |-> path, fname |-> fname, lines |-> lines]

\* the sensor files a station folder may hold: a ceop_sep file, a
\* header_values file, a ceop_sep file with a file name of 8 tokens, a ceop
\* file, and a file of one line
FileA == SensorFile("NWA/S1/a.stm", Fname9, <<HeaderA, DataA>>)
FileB == SensorFile("NWA/S1/b.stm", Fname10, <<HeaderB, Data1, <<>>, Data2>>)
FileBadName == SensorFile("NWA/S1/bad.stm", Fname8, <<HeaderA, DataA>>)
FileCeop == SensorFile("NWA/S1/ceop.stm", Fname5, <<Pad(HeaderA, 16), DataA>>)
FileOneLine == SensorFile("NWA/S1/short.stm", Fname9, <<HeaderB>>)
StationFiles == {FileA, FileB, FileBadName, FileCeop, FileOneLine}

\* the lists find_files may return: at most MaxFiles different files of pool
FileLists(pool) ==
    {l \in UNION {[1..n -> pool] : n \in 0..MaxFiles} :
        \A i, j \in 1..Len(l) : i # j => l[i] # l[j]}

StationFolders ==
    {[dir |-> "NWA/S1", csvs |-> c, files |-> l] :
        c \in {<<>>, <<CsvGood>>, <<CsvGood, CsvMalformed>>, <<CsvMalformed>>, <<CsvGap>>},
        l \in FileLists(StationFiles)}

\* sensor files of further station folders: a second file of station S1 of
\* network NWA kept in another folder, a header_values file of NWB, and a
\* file of a station whose name is the text of a number
FnameNum == <<"NWA", "NWA", "2", "sm", "0.00", "0.05", "Probe", "20170101", "20171231.stm">>
FileA2 == SensorFile("NWA/S1b/a.stm", Fname9, <<HeaderA, DataA>>)
FileB2 == SensorFile("NWB/S2/b.stm", Fname10, <<HeaderB, Data1, <<>>, Data2>>)
FileNum == SensorFile("NWA/2/n.stm", FnameNum, <<HeaderA, DataA>>)
FileB3 == SensorFile("NWB/S3/b.stm", Fname10, <<HeaderB, Data1, Data2>>)
FileCeop3 == SensorFile("NWB/S4/ceop.stm", Fname5, <<Pad(HeaderA, 16), DataA>>)

Folder(dir, csvs, files) == [dir |-> dir, csvs |-> csvs, files |-> files]

ArchiveFolders ==
    { Folder("NWA/S1", <<CsvGood>>, <<FileA, FileBadName>>),
      Folder("NWA/S1b", <<>>, <<FileA2>>),
      Folder("NWB/S2", <<CsvGood>>, <<FileB2>>),
      Folder("NWA/2", <<CsvGood>>, <<FileNum>>),
      Folder("NWB/S3", <<CsvMalformed>>, <<FileB3>>),
      Folder("NWB/S4", <<CsvGood>>, <<FileCeop3>>) }

MaxStations == 2

\* root.cont flattened: the station folders in the order they are submitted
Archives ==
    {a \in UNION {[1..n -> ArchiveFolders] : n \in 1..MaxStations} :
        \A i, j \in 1..Len(a) : i # j => a[i] # a[j]}

\* the custom_meta_readers a caller may pass; <<>> is None
ReaderConfigs == {<<>>, <<"none">>, <<"dict">>, <<"lc">>, <<"raise">>, <<"dict", "dict">>}

----------------------------------------------------------------------------
(* _read_station_dir: the scan of one station folder.  A folder is         *)
(* [dir, csvs, files]: the csv files and the sensor files find_files       *)
(* returns, in its order.  The locals of the scan are                      *)
(* [pc, station_meta, filelist, erroneous_files, i, raised_in].            *)

\* custom_meta_reader.read_metadata(meta): what the four kinds of reader do
\* ("none": returns None, "dict": a dict with a new key, "lc": a dict with
\* a key of the static metadata, "raise": raises)
cmr_read_metadata(kind, meta) ==
    IF kind = "dict" THEN from_dict(<< <<"custom", Str("tower")>> >>)
    ELSE IF kind = "lc" THEN from_dict(<< <<"lc_2010", Num(float("10"))>> >>)
    ELSE <<>>

\* lines 114-120: the loop over the custom readers; ok = FALSE when one raises
RECURSIVE read_custom(_, _)
read_custom(meta, readers) ==
    IF Len(readers) = 0 THEN [ok |-> TRUE, metadata |-> meta]
    ELSE IF readers[1] = "raise" THEN [ok |-> FALSE, metadata |-> meta]
    ELSE read_custom(merge(meta, cmr_read_metadata(readers[1], meta), TRUE), Tail(readers))

\* a scan that substitutes the defaults without recording the missing csv
scan_static_unrecorded(folder) ==
    LET static == static_read_metadata(folder.csvs[1])
        locals(pc, meta, where) ==
            [pc |-> pc, station_meta |-> meta, filelist |-> <<>>,
             erroneous_files |-> <<>>, i |-> 0, raised_in |-> where]
    IN IF Len(folder.csvs) = 0
       THEN locals("files", from_dict(CSV_META_TEMPLATE), "")
       ELSE IF static.ok
       THEN locals("files", static.metadata, "")
       ELSE locals("raised", <<>>, "static")

\* lines 62-92: the static metadata of the station.  StaticMetaFile(root, csv[0],
\* load_metadata=True).metadata is the outcome of StaticMetaFile.read_metadata.
scan_static(folder) ==
    LET missing == folder.dir \o "/*missing*"
        static == static_read_metadata(folder.csvs[1])
        locals(pc, meta, errors, where) ==
            [pc |-> pc, station_meta |-> meta, filelist |-> <<>>,
             erroneous_files |-> errors, i |-> 0, raised_in |-> where]
    IN IF Len(folder.csvs) = 0
       THEN locals("files", from_dict(CSV_META_TEMPLATE), <<missing>>, "")
       ELSE IF static.ok
       THEN locals("files", static.metadata, <<>>, "")
       ELSE locals("raised", <<>>, <<>>, "static")

\* a handler of the construction failure that keeps no record of the file
construction_failed_unrecorded(st, file_path) == [st EXCEPT !.i = st.i + 1]
\* a scan that lets the failure of the construction leave the function
construction_failed_aborts(st, file_path) ==
    [st EXCEPT !.pc = "raised", !.raised_in = "file"]
\* lines 96-103: the except branch of the construction, then continue
construction_failed(st, file_path) ==
    [st EXCEPT !.i = st.i + 1,
               !.erroneous_files = Append(st.erroneous_files, file_path)]

\* a reconciliation that keeps the first-seen candidate of each key
best_for_instrument_first_seen(merged) ==
    [k \in 1..Len(keys(merged)) |-> getitem(merged, keys(merged)[k])]

\* a reconciliation for the surface instead of the sensor's depth
best_for_instrument_surface(merged) == best_meta_for_depth(merged, Depth(0, 0))

\* a reconciliation that drops the keys no candidate of which meets the depth
best_for_instrument_meeting(merged) ==
    SelectSeq(best_meta_for_depth(merged, getitem(merged, "instrument").depth),
              LAMBDA v : v.depth = NoDepth
                         \/ overlaps(v.depth, getitem(merged, "instrument").depth))

\* a reconciliation that prefers a candidate without depth
best_for_instrument_depthless(merged) ==
    [k \in 1..Len(keys(merged)) |->
        IF \E c \in Range(candidates(merged, keys(merged)[k])) : c.depth = NoDepth
        THEN SelectSeq(candidates(merged, keys(merged)[k]), LAMBDA c : c.depth = NoDepth)[1]
        ELSE best_meta_for_depth(merged, getitem(merged, "instrument").depth)[k]]

\* a reconciliation that hands the keys back in the reverse order
best_for_instrument_reversed(merged) ==
    [k \in 1..Len(keys(merged)) |->
        best_meta_for_depth(merged, getitem(merged, "instrument").depth)[Len(keys(merged)) + 1 - k]]

\* lines 105-112: the station's metadata merged in, one MetaVar per key kept
best_for_instrument(merged) ==
    best_meta_for_depth(merged, getitem(merged, "instrument").depth)
with_station_meta(metadata, station_meta) ==
    best_for_instrument(merge(metadata, station_meta, FALSE))

\* lines 114-127: the custom readers' outcome, then the append to filelist
scan_append(st, file_path, file_type, custom) ==
    IF ~custom.ok
    THEN [st EXCEPT !.pc = "raised", !.raised_in = "file"]
    ELSE [st EXCEPT !.i = st.i + 1,
                    !.filelist = Append(st.filelist,
                        [network |-> val_of(custom.metadata, "network"),
                         station |-> val_of(custom.metadata, "station"),
                         f |-> [file_path |-> file_path, file_type |-> file_type,
                                metadata |-> custom.metadata]])]

\* lines 96-127 for made, the outcome of DataFile(root, file_path, temp_root)
scan_made(st, file_path, made, readers) ==
    IF ~made.ok
    THEN construction_failed(st, file_path)
    ELSE scan_append(st, file_path, made.file_type,
                     read_custom(with_station_meta(made.metadata, st.station_meta), readers))

\* lines 94-127: one turn of the loop over data_files
scan_file(st, folder, readers) ==
    scan_made(st, folder.files[st.i + 1].path,
              read_metadata(folder.files[st.i + 1], folder.csvs), readers)

\* lines 94-132: the rest of the scan from the locals st on
RECURSIVE scan_files(_, _, _)
scan_files(st, folder, readers) ==
    IF st.pc # "files" THEN st
    ELSE IF st.i = Len(folder.files) THEN [st EXCEPT !.pc = "returned"]
    ELSE scan_files(scan_file(st, folder, readers), folder, readers)

\* _read_station_dir(root, stat_dir, temp_root, custom_meta_reader)
_read_station_dir(folder, readers) == scan_files(scan_static(folder), folder, readers)

----------------------------------------------------------------------------
(* SpecRead: DataFile(root, file_path) on one sensor file *)

NewHandler == [pc |-> "new", ok |-> FALSE, err |-> "", file_type |-> "undefined", metadata |-> <<>>]

InitRead ==
    /\ file \in SensorFiles
    /\ handler = NewHandler
    /\ scan = Idle
    /\ build = Idle
    /\ recon = Idle
    /\ coll = Idle

\* DataFile.__init__ with load_metadata=True
DataFileInit ==
    /\ handler.pc = "new"
    /\ LET r == read_metadata(file, file.csvs)
       IN handler' = [pc |-> "done", ok |-> r.ok, err |-> r.err,
                      file_type |-> r.file_type, metadata |-> r.metadata]
    /\ UNCHANGED <<file, scan, build, recon, coll>>

NextRead == DataFileInit

SpecRead == InitRead /\ [][NextRead]_vars

----------------------------------------------------------------------------
(* What the claims read off a file, stated without the reading code *)

nonempty_lines(lines) == SelectSeq(lines, LAMBDA l : l # <<>>)
header_line(f) == f.lines[1]
second_nonempty_line(f) == nonempty_lines(f.lines)[2]
last_nonempty_line(f) == nonempty_lines(f.lines)[Len(nonempty_lines(f.lines))]
readable(f) == Len(f.lines) > 0 /\ Len(nonempty_lines(Tail(f.lines))) > 0

\* what C30 says of the reading r of file f and of the handler h made of it
read_as_claimed(f, h, r) ==
    /\ r.i <= Len(f.lines) + 1
    /\ Len(nonempty_lines(f.lines)) >= 2
          => /\ r.ok
             /\ r.headr = header_line(f)
             /\ r.scnd = nonempty_lines(Tail(f.lines))[1]
             /\ r.last = last_nonempty_line(f)
    /\ Len(nonempty_lines(f.lines)) < 2 => ~h.ok /\ h.metadata = <<>>
    /\ (Len(nonempty_lines(f.lines)) < 2 /\ (f.lines = <<>> \/ header_line(f) # <<>>))
          => ~r.ok /\ h.err = "IOError"

\* C30: _read_lines ends for every file content, after no more rounds of
\* its loop than the file has lines; for a file with at least two non-empty
\* lines it returns line 0, the first non-empty line after line 0 and the
\* last non-empty line; of a file with fewer than two non-empty lines (no
\* line, a header only, a header and blank lines only) the reading fails,
\* the construction raises IOError and no metadata is made.
C30_ReadLines ==
    handler.pc = "done" => read_as_claimed(file, handler, _read_lines(file.lines))

\* a file whose data line stands between two blank lines was read
C30_Witness ==
    /\ handler.pc = "done"
    /\ handler.ok
    /\ Len(file.lines) = 4
    /\ file.lines[2] = <<>> /\ file.lines[3] # <<>> /\ file.lines[4] = <<>>
    /\ _read_lines(file.lines).scnd = file.lines[3]
    /\ _read_lines(file.lines).last = file.lines[3]

\* C9: a constructed handler of a file with a 15-token header and at least 9
\* file name tokens has file_type ceop_sep, network, station, variable,
\* instrument and depth from the file name tokens, latitude, longitude and
\* elevation from the header line, and the time range from the header line
\* and the last non-empty line; no such file is refused as an unknown or
\* unsupported format once its lines could be read.
C9_CeopSep ==
    (handler.pc = "done" /\ readable(file)
         /\ Len(header_line(file)) = 15 /\ Len(file.fname) >= 9)
    => /\ ~handler.ok => handler.err \notin {"IOError", "RuntimeError"}
       /\ handler.ok =>
            LET md == handler.metadata
                fn == file.fname
                h == header_line(file)
            IN /\ handler.file_type = "ceop_sep"
               /\ val_of(md, "network") = Str(fn[2])
               /\ val_of(md, "station") = Str(fn[3])
               /\ val_of(md, "variable") =
                      Str(IF fn[4] = "sm" THEN "soil_moisture"
                          ELSE IF fn[4] = "ts" THEN "soil_temperature" ELSE fn[4])
               /\ val_of(md, "instrument") = Str(join(SubSeq(fn, 7, Len(fn) - 2)))
               /\ depth_of(md, "instrument") = <<float(fn[5]), float(fn[6])>>
               /\ depth_of(md, "variable") = <<float(fn[5]), float(fn[6])>>
               /\ val_of(md, "latitude") = Num(float(h[8]))
               /\ val_of(md, "longitude") = Num(float(h[9]))
               /\ val_of(md, "elevation") = Num(float(h[10]))
               /\ val_of(md, "timerange_from") = to_datetime(SubSeq(h, 1, 2))
               /\ val_of(md, "timerange_to") = to_datetime(SubSeq(last_nonempty_line(file), 1, 2))

C9_Witness ==
    /\ handler.pc = "done" /\ handler.ok /\ handler.file_type = "ceop_sep"
    /\ Len(header_line(file)) = 15 /\ Len(file.fname) = 10
    /\ last_nonempty_line(file) # second_nonempty_line(file)

\* C10: a constructed handler of a file with fewer than 14 header tokens and
\* at least 9 file name tokens has file_type header_values, network, station,
\* latitude, longitude, elevation and depth from the header line, and the
\* time range from the second and the last non-empty line; no such file is
\* refused as an unknown or unsupported format once its lines could be read.
C10_HeaderValues ==
    (handler.pc = "done" /\ readable(file)
         /\ Len(header_line(file)) < 14 /\ Len(file.fname) >= 9)
    => /\ ~handler.ok => handler.err \notin {"IOError", "RuntimeError"}
       /\ handler.ok =>
            LET md == handler.metadata
                h == header_line(file)
            IN /\ handler.file_type = "header_values"
               /\ val_of(md, "network") = Str(h[2])
               /\ val_of(md, "station") = Str(h[3])
               /\ val_of(md, "latitude") = Num(float(h[4]))
               /\ val_of(md, "longitude") = Num(float(h[5]))
               /\ val_of(md, "elevation") = Num(float(h[6]))
               /\ depth_of(md, "instrument") = <<float(h[7]), float(h[8])>>
               /\ depth_of(md, "variable") = <<float(h[7]), float(h[8])>>
               /\ val_of(md, "timerange_from") = to_datetime(SubSeq(second_nonempty_line(file), 1, 2))
               /\ val_of(md, "timerange_to") = to_datetime(SubSeq(last_nonempty_line(file), 1, 2))

C10_Witness ==
    /\ handler.pc = "done" /\ handler.ok /\ handler.file_type = "header_values"
    /\ Len(header_line(file)) < 14 /\ Len(file.fname) >= 9
    /\ last_nonempty_line(file) # second_nonempty_line(file)
    /\ file.lines[2] = <<>>

\* the shape the two token counts have: dialect A, dialect B, the not
\* supported third dialect, or none of the three
shape(n_headr, n_fname) ==
    IF n_headr = 15 /\ n_fname >= 9 THEN "A"
    ELSE IF n_headr < 14 /\ n_fname >= 9 THEN "B"
    ELSE IF n_headr = 16 /\ n_fname = 5 THEN "unsupported"
    ELSE "unrecognized"

\* C12: once the lines of a file could be read, the outcome class of the
\* construction is decided by the header token count and the file name token
\* count alone: a pair outside the three shapes is refused as an unknown
\* format (IOError) with no metadata, the pair (16, 5) is refused as not
\* supported (RuntimeError) with no metadata, and a pair of dialect A or B is
\* never refused for its format and a handler made of it has that dialect's
\* file_type.
C12_DialectByTokenCounts ==
    (handler.pc = "done" /\ readable(file))
    => LET kind == shape(Len(header_line(file)), Len(file.fname))
       IN /\ kind = "unrecognized"
             => ~handler.ok /\ handler.err = "IOError" /\ handler.metadata = <<>>
          /\ kind = "unsupported"
             => ~handler.ok /\ handler.err = "RuntimeError" /\ handler.metadata = <<>>
          /\ kind \in {"A", "B"}
             => /\ ~handler.ok => handler.err \notin {"IOError", "RuntimeError"}
                /\ handler.ok =>
                      handler.file_type = (IF kind = "A" THEN "ceop_sep" ELSE "header_values")

C12_Witness ==
    /\ handler.pc = "done" /\ readable(file)
    /\ Len(header_line(file)) = 14 /\ Len(file.fname) = 9
    /\ ~handler.ok /\ handler.err = "IOError" /\ handler.metadata = <<>>

----------------------------------------------------------------------------
(* SpecScan: one call of _read_station_dir, a step per loop turn *)

locals_of(sc) ==
    [pc |-> sc.pc, station_meta |-> sc.station_meta, filelist |-> sc.filelist,
     erroneous_files |-> sc.erroneous_files, i |-> sc.i, raised_in |-> sc.raised_in]

with_locals(sc, st) ==
    [sc EXCEPT !.pc = st.pc, !.station_meta = st.station_meta, !.filelist = st.filelist,
               !.erroneous_files = st.erroneous_files, !.i = st.i, !.raised_in = st.raised_in]

InitScan ==
    /\ \E folder \in StationFolders, readers \in ReaderConfigs, root \in {"path", "IsmnRoot"} :
          scan = [pc |-> "start", folder |-> folder, readers |-> readers, root |-> root,
                  proc_root |-> FALSE, root_open |-> (root = "IsmnRoot"),
                  station_meta |-> <<>>, filelist |-> <<>>, erroneous_files |-> <<>>,
                  i |-> 0, raised_in |-> ""]
    /\ file = Idle
    /\ handler = Idle
    /\ build = Idle
    /\ recon = Idle
    /\ coll = Idle

\* lines 56-92: open the root when a path was passed, read the static metadata
ScanStart ==
    /\ scan.pc = "start"
    /\ scan' = [with_locals(scan, scan_static(scan.folder))
                  EXCEPT !.proc_root = (scan.root = "path"), !.root_open = TRUE]
    /\ UNCHANGED <<file, handler, build, recon, coll>>

\* lines 94-127: the next sensor file
ScanFile ==
    /\ scan.pc = "files"
    /\ scan.i < Len(scan.folder.files)
    /\ scan' = with_locals(scan, scan_file(locals_of(scan), scan.folder, scan.readers))
    /\ UNCHANGED <<file, handler, build, recon, coll>>

\* lines 129-132: close the root the scan opened, and return
ScanReturn ==
    /\ scan.pc = "files"
    /\ scan.i = Len(scan.folder.files)
    /\ scan' = [scan EXCEPT !.pc = "returned",
                            !.root_open = IF scan.proc_root THEN FALSE ELSE @]
    /\ UNCHANGED <<file, handler, build, recon, coll>>

NextScan == ScanStart \/ ScanFile \/ ScanReturn

SpecScan == InitScan /\ [][NextScan]_vars

count(seq, x) == Cardinality({i \in 1..Len(seq) : seq[i] = x})
returned_paths(sc) == [i \in 1..Len(sc.filelist) |-> sc.filelist[i].f.file_path]
construction_fails(f, folder) == ~read_metadata(f, folder.csvs).ok

\* C3: of the sensor files a scan has been through, each one whose handler
\* could not be constructed is absent from the file list and has exactly one
\* error record with its path, and each other one is in the file list; so
\* at the return every other file of the folder has been processed and is
\* returned.
C3_ConstructionFailure ==
    scan.pc \in {"files", "returned"}
    => /\ scan.pc = "returned" => scan.i = Len(scan.folder.files)
       /\ \A k \in 1..scan.i :
            LET f == scan.folder.files[k]
            IN IF construction_fails(f, scan.folder)
               THEN /\ count(returned_paths(scan), f.path) = 0
                    /\ count(scan.erroneous_files, f.path) = 1
               ELSE /\ count(returned_paths(scan), f.path) = 1
                    /\ count(scan.erroneous_files, f.path) = 0

C3_Witness ==
    /\ scan.pc = "returned"
    /\ Len(scan.folder.files) = 2
    /\ Len(scan.folder.files[1].lines[1]) = 15 /\ Len(scan.folder.files[1].fname) < 9
    /\ scan.erroneous_files = <<scan.folder.files[1].path>>
    /\ returned_paths(scan) = <<scan.folder.files[2].path>>

\* C4 (as claimed): no failure met while a sensor file is processed aborts
\* the scan.
C4_FileFailuresCaught == scan.pc = "raised" => scan.raised_in # "file"

\* C5: a scan of a folder without csv file gets past the static metadata
\* without raising, with one depth-less MetaVar per template key that holds
\* the template's default, and with the missing csv file recorded once; when
\* it returns it has been through every sensor file of the folder.
C5_NoCsvFile ==
    (scan.pc # "start" /\ Len(scan.folder.csvs) = 0)
    => /\ scan.raised_in # "static"
       /\ Len(scan.station_meta) = Len(CSV_META_TEMPLATE)
       /\ \A k \in 1..Len(scan.station_meta) :
             /\ scan.station_meta[k].name = CSV_META_TEMPLATE[k][1]
             /\ scan.station_meta[k].val = CSV_META_TEMPLATE[k][2]
             /\ scan.station_meta[k].depth = NoDepth
       /\ count(scan.erroneous_files, scan.folder.dir \o "/*missing*") = 1
       /\ scan.pc = "returned" =>
             /\ scan.i = Len(scan.folder.files)
             /\ \A k \in 1..Len(scan.folder.files) :
                   count(returned_paths(scan) \o scan.erroneous_files,
                         scan.folder.files[k].path) = 1

C5_Witness ==
    /\ scan.pc = "returned"
    /\ Len(scan.folder.csvs) = 0
    /\ Len(scan.filelist) = 2

\* the not supported CEOP shape: 16 header tokens and 5 file name tokens
ceop_shape(f) == Len(f.lines) > 0 /\ Len(f.lines[1]) = 16 /\ Len(f.fname) = 5

\* C11: a sensor file with 16 header tokens and 5 file name tokens that a
\* scan has been through is absent from the file list and has exactly one
\* error record with its path; the scan does not stop at such a file; and
\* at the return every file of the folder has been processed and every one
\* whose handler could be constructed is in the file list.
C11_CeopHardFailure ==
    /\ scan.pc \in {"files", "returned"}
       => \A k \in 1..scan.i :
             ceop_shape(scan.folder.files[k])
             => /\ count(returned_paths(scan), scan.folder.files[k].path) = 0
                /\ count(scan.erroneous_files, scan.folder.files[k].path) = 1
    /\ (scan.pc = "raised" /\ scan.raised_in = "file")
       => ~ceop_shape(scan.folder.files[scan.i + 1])
    /\ scan.pc = "returned"
       => /\ scan.i = Len(scan.folder.files)
          /\ \A k \in 1..Len(scan.folder.files) :
                ~construction_fails(scan.folder.files[k], scan.folder)
                => count(returned_paths(scan), scan.folder.files[k].path) = 1

C11_Witness ==
    /\ scan.pc = "returned"
    /\ Len(scan.folder.files) = 2
    /\ \E k \in 1..2 :
          /\ ceop_shape(scan.folder.files[k])
          /\ scan.erroneous_files = <<scan.folder.files[k].path>>
          /\ returned_paths(scan) = <<scan.folder.files[3 - k].path>>

\* the metadata DataFile made for the sensor file of the folder at path
\* C28 (as claimed): a scan task given the archive as a path opens its own
\* view of the archive and has closed it when the task is over, on every
\* path through the task; a task given a constructed root leaves it open.
C28_ViewClosed ==
    /\ (scan.pc \in {"returned", "raised"} /\ scan.root = "path") => ~scan.root_open
    /\ (scan.pc # "start" /\ scan.root = "path" /\ scan.pc \notin {"returned", "raised"})
          => scan.proc_root /\ scan.root_open
    /\ scan.root = "IsmnRoot" => ~scan.proc_root /\ scan.root_open

made_metadata(sc, path) ==
    read_metadata(CHOOSE f \in Range(sc.folder.files) : f.path = path, sc.folder.csvs).metadata

\* C21 (as claimed): every handler in the file list of a scan holds, for
\* each key that both the metadata DataFile made for its file and the
\* station's metadata have a candidate for, the value of the file's own
\* candidate.
C21_OwnValueKept ==
    scan.pc \in {"files", "returned", "raised"}
    => \A j \in 1..Len(scan.filelist) :
          \A k \in Range(keys(made_metadata(scan, scan.filelist[j].f.file_path)))
                    \cap Range(keys(scan.station_meta)) :
             val_of(scan.filelist[j].f.metadata, k)
                = val_of(made_metadata(scan, scan.filelist[j].f.file_path), k)

----------------------------------------------------------------------------
(* build_from_scratch: fan-out of the station scans, fan-in, sort, grouping *)

\* the order Python gives the network and station names of the archive
StrOrder == <<"2", "NWA", "NWB", "S1", "S2">>
str_rank(x) == CHOOSE i \in 1..Len(StrOrder) : StrOrder[i] = x
str_lt(a, b) == str_rank(a) < str_rank(b)

\* itemgetter(0, 1) of two elements: (network, station) <= (network, station)
key_le(a, b) ==
    \/ str_lt(a.network.s, b.network.s)
    \/ a.network.s = b.network.s /\ ~str_lt(b.station.s, a.station.s)

RECURSIVE concat(_)
concat(seqs) == IF seqs = <<>> THEN <<>> ELSE seqs[1] \o concat(Tail(seqs))

\* a fan-in that leaves the elements in the order the results came in
sort_left_out(elements) == elements
\* elements.sort(key=itemgetter(0, 1)): stable, ascending
RECURSIVE sort(_)
sort(elements) ==
    IF elements = <<>> THEN <<>>
    ELSE LET n == Len(elements)
             e == elements[n]
             front == sort(SubSeq(elements, 1, n - 1))
             at == Cardinality({i \in 1..Len(front) : key_le(front[i], e)})
         IN SubSeq(front, 1, at) \o <<e>> \o SubSeq(front, at + 1, Len(front))

\* lines 292-296: the OrderedDict network -> handlers, as a list of entries
RECURSIVE group(_)
group(elements) ==
    IF elements = <<>> THEN <<>>
    ELSE LET n == Len(elements)
             e == elements[n]
             front == group(SubSeq(elements, 1, n - 1))
             at == {i \in 1..Len(front) : front[i].network = e.network}
         IN IF at = {}
            THEN Append(front, [network |-> e.network, handlers |-> <<e.f>>])
            ELSE [i \in 1..Len(front) |->
                    IF i \in at
                    THEN [front[i] EXCEPT !.handlers = Append(@, e.f)]
                    ELSE front[i]]

\* lines 283-296 for the results res of the scan tasks
index_of(res) ==
    group(sort(concat([i \in 1..Len(res) |-> res[i].filelist])))
errors_of(res) ==
    concat([i \in 1..Len(res) |-> res[i].erroneous_files])

\* an iteration that takes no notice of the networks asked for
iter_filehandlers_all(filelist, networks) ==
    concat([i \in 1..Len(filelist) |-> filelist[i].handlers])

\* IsmnFileCollection.iter_filehandlers(networks), lines 480-498: the handlers
\* yielded, network by network; networks is <<>> for None and << list >> for
\* a list of network names
iter_filehandlers(filelist, networks) ==
    concat([i \in 1..Len(filelist) |->
              IF networks = <<>> \/ filelist[i].network \in Range(networks[1])
              THEN filelist[i].handlers
              ELSE <<>>])

Init ==
    /\ \E archive \in Archives, readers \in ReaderConfigs,
          parallel \in BOOLEAN, log_path \in {"None", "logs"} :
          build = [pc |-> "running", archive |-> archive, readers |-> readers,
                   parallel |-> parallel, log_path |-> log_path,
                   pending |-> 1..Len(archive), res |-> <<>>, failed_tasks |-> {},
                   filelist |-> <<>>, errors |-> <<>>, log_file |-> <<>>,
                   csv |-> <<>>, network |-> <<>>, loaded |-> <<>>]
    /\ file = Idle
    /\ handler = Idle
    /\ scan = Idle
    /\ recon = Idle
    /\ coll = Idle

\* the result list and the tasks that raised, after task d ended with r
task_ended(b, d, r) ==
    IF r.pc = "returned"
    THEN [b EXCEPT !.pending = @ \ {d},
                   !.res = Append(@, [task |-> d, filelist |-> r.filelist,
                                      erroneous_files |-> r.erroneous_files])]
    ELSE [b EXCEPT !.pending = @ \ {d}, !.failed_tasks = @ \cup {d}]

\* lines 273-281: the scan task of station folder d completes; with one
\* worker the tasks complete in the order of process_stat_dirs.  A task that
\* raised leaves no result (ignore_errors=True).  res holds the results in
\* the order in which the tasks completed.
TaskDone(d) ==
    /\ build.pc = "running"
    /\ d \in build.pending
    /\ build.parallel \/ \A o \in build.pending : d <= o
    /\ build' = task_ended(build, d, _read_station_dir(build.archive[d], build.readers))
    /\ UNCHANGED <<file, handler, scan, recon, coll>>

\* lines 283-320: fan-in, sort, grouping, the summary of the erroneous files
Collect ==
    /\ build.pc = "running"
    /\ build.pending = {}
    /\ LET errors == errors_of(build.res)
       IN IF Len(errors) > 0 /\ build.log_path = "None"
          THEN build' = [build EXCEPT !.pc = "raised", !.errors = errors]
          ELSE build' = [build EXCEPT !.pc = "returned", !.errors = errors,
                                      !.filelist = index_of(build.res),
                                      !.log_file = errors]
    /\ UNCHANGED <<file, handler, scan, recon, coll>>


----------------------------------------------------------------------------
(* to_metadata_csv / from_metadata_csv: the index as a flat text table *)

\* the order Python and pandas give the metadata keys
NameOrder ==
    <<"clay_fraction", "climate_KG", "climate_insitu", "custom", "elevation",
      "instrument", "latitude", "lc_2000", "lc_2005", "lc_2010", "lc_insitu",
      "longitude", "network", "organic_carbon", "sand_fraction", "saturation",
      "silt_fraction", "station", "timerange_from", "timerange_to", "variable">>

\* the names of S in ascending order (np.unique, pd.concat(sort=True))
sorted_names(S) == SelectSeq(NameOrder, LAMBDA n : n \in S)

\* str(Timestamp) and its parse
IsoText ==
    << <<"2017-01-01 00:00:00", 2>>, <<"2017-01-01 12:00:00", 3>>,
       <<"2017-06-30 00:00:00", 4>>, <<"2017-06-30 12:00:00", 5>>,
       <<"2017-12-31 00:00:00", 6>>, <<"2017-12-31 12:00:00", 7>> >>
iso_text(n) == IsoText[CHOOSE i \in 1..Len(IsoText) : IsoText[i][2] = n][1]
is_iso(text) == \E i \in 1..Len(IsoText) : IsoText[i][1] = text
from_iso(text) == IsoText[CHOOSE i \in 1..Len(IsoText) : IsoText[i][1] = text][2]

\* the text to_csv writes for a number
repr(n) == FloatText[CHOOSE i \in 1..Len(FloatText) : FloatText[i][2] = n][1]

\* the text to_csv writes for a cell
cell_text(v) ==
    IF v.t = "nan" THEN ""
    ELSE IF v.t = "num" THEN repr(v.n)
    ELSE IF v.t = "ts" THEN iso_text(v.n)
    ELSE v.s

\* MetaVar.get_formatted("pandas"): depth_from, depth_to, val of one MetaVar,
\* in the order pd.concat(sort=True) leaves the three columns of a key
triple_text(v) ==
    IF v.depth = NoDepth THEN <<"", "", cell_text(v.val)>>
    ELSE <<repr(v.depth[1]), repr(v.depth[2]), cell_text(v.val)>>

names_of(md) == {md[i].name : i \in 1..Len(md)}
unique_keys(md) == \A i, j \in 1..Len(md) : md[i].name = md[j].name => i = j

\* lines 437-450: the row of one handler under the sorted key columns
row_text(fh, names) ==
    concat([k \in 1..Len(names) |->
              IF names[k] \in names_of(fh.metadata)
              THEN triple_text(getitem(fh.metadata, names[k]))
              ELSE <<"", "", "">>])
    \o <<fh.file_path, fh.file_type>>

csv_table(handlers, names) ==
    [names |-> names, rows |-> [i \in 1..Len(handlers) |-> row_text(handlers[i], names)]]

\* lines 436-454 for the handlers iter_filehandlers() yields: ok is FALSE when
\* pd.concat raises, for no handler at all or for key columns that are not unique
write_rows(handlers) ==
    IF handlers = <<>> \/ \E h \in 1..Len(handlers) : ~unique_keys(handlers[h].metadata)
    THEN [ok |-> FALSE, names |-> <<>>, rows |-> <<>>]
    ELSE [ok |-> TRUE] @@
         csv_table(handlers,
                   sorted_names(UNION {names_of(handlers[h].metadata) : h \in 1..Len(handlers)}))

to_metadata_csv(filelist) == write_rows(iter_filehandlers(filelist, <<>>))

\* the texts pd.read_csv reads as a missing value
na_values ==
    {"", "#N/A", "#N/A N/A", "#NA", "-1.#IND", "-1.#QNAN", "-NaN", "-nan", "1.#IND",
     "1.#QNAN", "<NA>", "N/A", "NA", "NULL", "NaN", "None", "n/a", "nan", "null"}

\* pd.read_csv: a column is numeric when every cell that is not missing is
\* the text of a number
numeric_column(rows, c) ==
    \A r \in 1..Len(rows) : rows[r][c] \in na_values \/ is_float(rows[r][c])

\* lines 141-150: the value read for the cell of row r and column c
cell_value(csv, r, c) ==
    LET text == csv.rows[r][c]
        name == csv.names[((c - 1) \div 3) + 1]
    IN IF text \in na_values THEN NaN
       ELSE IF c % 3 = 0 /\ name \in {"timerange_from", "timerange_to"} /\ is_iso(text)
       THEN Timestamp(from_iso(text))
       ELSE IF numeric_column(csv.rows, c) THEN Num(float(text))
       ELSE Str(text)

\* MetaVar.from_tuple((name, val, depth_from, depth_to))
from_tuple(name, val, depth_from, depth_to) ==
    MetaVar(name, val,
            IF depth_from.t = "num" /\ depth_to.t = "num"
            THEN Depth(depth_from.n, depth_to.n) ELSE NoDepth)

\* lines 346-367: the handler of row r, names being np.unique of the key names
handler_of_row(csv, r, names) ==
    [file_path |-> csv.rows[r][3 * Len(csv.names) + 1],
     file_type |-> csv.rows[r][3 * Len(csv.names) + 2],
     metadata |-> [i \in 1..Len(names) |->
                     from_tuple(names[i], cell_value(csv, r, 3 * i),
                                cell_value(csv, r, 3 * i - 2),
                                cell_value(csv, r, 3 * i - 1))]]

\* the index of the key network among the sorted keys
network_column(csv) == CHOOSE k \in 1..Len(csv.names) : csv.names[k] = "network"

\* the networks a caller passes: None, no network, one, both, and a list with
\* a name no network has
NetworkLists ==
    {<<>>, << <<>> >>, << <<Str("NWA")>> >>, << <<Str("NWB")>> >>,
     << <<Str("NWB"), Str("NWA")>> >>, << <<Str("NWA"), Str("NWX")>> >>}

\* lines 408-409 without the selection: every row of the file
isin_all(csv, network) == [r \in 1..Len(csv.rows) |-> r]

\* lines 408-409: the rows metadata_df[np.isin(metadata_df["network"].values,
\* network)] keeps, one for each row whose network value is in the list;
\* network is <<>> for None and << list >> for a list of names
isin(csv, network) ==
    SelectSeq([r \in 1..Len(csv.rows) |-> r],
              LAMBDA r : \/ network = <<>>
                         \/ cell_value(csv, r, 3 * network_column(csv)) \in Range(network[1]))

\* from_metadata_df, lines 342-378, for the rows rs of the file read
from_metadata_df(csv, rs) ==
    group([k \in 1..Len(rs) |->
             [network |-> cell_value(csv, rs[k], 3 * network_column(csv)),
              station |-> NaN,
              f |-> handler_of_row(csv, rs[k], sorted_names(Range(csv.names)))]])

\* from_metadata_csv(network): _load_metadata_df, the selection of the
\* networks, then from_metadata_df
from_metadata_csv(csv, network) == from_metadata_df(csv, isin(csv, network))

\* IsmnFileCollection.to_metadata_csv of the built collection
ToMetadataCsv ==
    /\ build.pc = "returned"
    /\ build' = [build EXCEPT
                   !.pc = IF to_metadata_csv(build.filelist).ok THEN "stored" ELSE "store_raised",
                   !.csv = to_metadata_csv(build.filelist)]
    /\ UNCHANGED <<file, handler, scan, recon, coll>>

\* IsmnFileCollection.from_metadata_csv of the file written
FromMetadataCsv ==
    /\ build.pc = "stored"
    /\ \E network \in NetworkLists :
          build' = [build EXCEPT !.pc = "loaded", !.network = network,
                                 !.loaded = from_metadata_csv(build.csv, network)]
    /\ UNCHANGED <<file, handler, scan, recon, coll>>

Next ==
    \/ \E d \in 1..MaxStations : TaskDone(d)
    \/ Collect
    \/ ToMetadataCsv
    \/ FromMetadataCsv

Spec == Init /\ [][Next]_vars

stations_of(entry) == [i \in 1..Len(entry.handlers) |-> val_of(entry.handlers[i].metadata, "station").s]

\* C1: the index build_from_scratch returns has its network keys in strictly
\* ascending order and, in each network's list, station names that never
\* descend, in whatever order the scan tasks completed.
C1_SortedIndex ==
    build.pc = "returned"
    => /\ \A i, j \in 1..Len(build.filelist) :
             i < j => str_lt(build.filelist[i].network.s, build.filelist[j].network.s)
       /\ \A n \in 1..Len(build.filelist) :
             LET st == stations_of(build.filelist[n])
             IN \A i, j \in 1..Len(st) : i < j => ~str_lt(st[j], st[i])

\* two tasks completed against the order of submission, and the later
\* submitted one brought the smaller key
C1_Witness ==
    /\ build.pc = "returned"
    /\ build.parallel
    /\ Len(build.res) = 2
    /\ build.res[1].task > build.res[2].task
    /\ Len(build.res[1].filelist) > 0 /\ Len(build.res[2].filelist) > 0
    /\ ~key_le(build.res[1].filelist[1], build.res[2].filelist[1])

\* the results of the scan tasks in the order a single worker completes them
RECURSIVE results_in_order(_, _)
results_in_order(b, d) ==
    IF d > Len(b.archive) THEN b.res
    ELSE results_in_order(
             task_ended(b, d, _read_station_dir(b.archive[d], b.readers)), d + 1)

\* C2 (as claimed): the index a build returns is the index a single worker
\* builds from the same archive.
C2_SameAsSingleWorker ==
    build.pc = "returned"
    => build.filelist = index_of(results_in_order([build EXCEPT !.res = <<>>], 1))

\* C6 (as claimed): a build that collected error records completes and
\* returns the index of the files that did not fail, whatever log_path is.
C6_CompletesWithErrors ==
    (build.pc \in {"returned", "raised"} /\ Len(build.errors) > 0)
    => /\ build.pc = "returned"
       /\ build.filelist = index_of(build.res)

RequiredKeys ==
    {"network", "station", "instrument", "variable", "timerange_from",
     "timerange_to", "latitude", "longitude", "elevation"}

\* C7 (as claimed): every handler of a returned index has exactly one MetaVar
\* per key, the required keys among them.
C7_Reconciled ==
    build.pc = "returned"
    => \A n \in 1..Len(build.filelist) :
         \A h \in 1..Len(build.filelist[n].handlers) :
            LET md == build.filelist[n].handlers[h].metadata
            IN /\ \A i, j \in 1..Len(md) : md[i].name = md[j].name => i = j
               /\ \A k \in RequiredKeys : \E i \in 1..Len(md) : md[i].name = k

\* the handler b holds every key of handler a with a's value and depth
same_handler(a, b) ==
    /\ a.file_path = b.file_path
    /\ a.file_type = b.file_type
    /\ \A k \in names_of(a.metadata) :
          /\ k \in names_of(b.metadata)
          /\ getitem(a.metadata, k).val = getitem(b.metadata, k).val
          /\ getitem(a.metadata, k).depth = getitem(b.metadata, k).depth

same_index(a, b) ==
    /\ Len(a) = Len(b)
    /\ \A n \in 1..Len(a) :
          /\ a[n].network = b[n].network
          /\ Len(a[n].handlers) = Len(b[n].handlers)
          /\ \A h \in 1..Len(a[n].handlers) : same_handler(a[n].handlers[h], b[n].handlers[h])

\* C8 (as claimed): the collection from_metadata_csv loads from the file
\* to_metadata_csv wrote for a built index has the same networks in the same
\* order, the same handlers in the same order and, for every key of every
\* handler, the same value and depth.
C8_RoundTrip ==
    (build.pc = "loaded" /\ build.network = <<>>)
    => same_index(build.filelist, build.loaded)

\* the file paths of the rows of the file whose network cell is one of names
paths_of_networks(csv, names) ==
    SelectSeq([r \in 1..Len(csv.rows) |->
                 IF csv.rows[r][3 * network_column(csv)] \in names
                 THEN csv.rows[r][3 * Len(csv.names) + 1] ELSE ""],
              LAMBDA path : path # "")

\* C26: from_metadata_csv with a list of networks loads a handler for every
\* stored row whose network is in the list and for no other row, in the
\* order of the rows, and each of them as the load without a list
\* reconstructs it.
C26_NetworkFilter ==
    (build.pc = "loaded" /\ build.network # <<>>)
    => /\ iter_filehandlers(build.loaded, <<>>)
            = SelectSeq(iter_filehandlers(from_metadata_csv(build.csv, <<>>), <<>>),
                        LAMBDA h : val_of(h.metadata, "network") \in Range(build.network[1]))
       /\ [i \in 1..Len(iter_filehandlers(build.loaded, <<>>)) |->
              iter_filehandlers(build.loaded, <<>>)[i].file_path]
            = paths_of_networks(build.csv, {x.s : x \in Range(build.network[1])})
       /\ \A n \in 1..Len(build.loaded) : build.loaded[n].network \in Range(build.network[1])

\* a file with rows of two networks was loaded for the second network only
C26_Witness ==
    /\ build.pc = "loaded"
    /\ build.network = << <<Str("NWB")>> >>
    /\ Len(from_metadata_csv(build.csv, <<>>)) = 2
    /\ Len(build.loaded) = 1
    /\ build.loaded[1].network = Str("NWB")

----------------------------------------------------------------------------
(* SpecMeta: the station's metadata merged into the metadata of one sensor *)
(* file and reconciled for the sensor's depth (_read_station_dir, lines    *)
(* 105-111), over station metadata of up to MaxCandidates entries          *)

MaxCandidates == 3

SoilKeys == {"clay_fraction", "sand_fraction"}
CandidateDepths ==
    {NoDepth, Depth(0, 30), Depth(30, 100), Depth(0, 10), Depth(10, 30), Depth(5, 15)}
\* the sensor depths: two layers below a [0, 0.3] candidate, a point depth,
\* and a layer that no candidate encloses
SensorDepths == {Depth(0, 5), Depth(5, 10), Depth(5, 5), Depth(0, 40)}

\* station metadata of n entries; the value of an entry tells its position
StationMetas(n) ==
    {[i \in 1..n |-> MetaVar(p[i][1], Num(i), p[i][2])] :
        p \in [1..n -> SoilKeys \X CandidateDepths]}

\* the metadata DataFile made for a sensor at depth d
made_for(d) == <<MetaVar("variable", Str("soil_moisture"), d), MetaVar("instrument", Str("Probe"), d)>>

InitMeta ==
    /\ \E d \in SensorDepths, n \in 0..MaxCandidates :
          \E station_meta \in StationMetas(n) :
             recon = [pc |-> "made", station_meta |-> station_meta, made |-> made_for(d),
                     f_metadata |-> made_for(d), merged |-> <<>>, reconciled |-> <<>>]
    /\ file = Idle
    /\ handler = Idle
    /\ scan = Idle
    /\ build = Idle
    /\ coll = Idle

\* line 105: f.metadata.merge(station_meta, inplace=True, exclude_empty=False)
MergeStationMeta ==
    /\ recon.pc = "made"
    /\ recon' = [recon EXCEPT !.pc = "merged",
                            !.f_metadata = merge(recon.f_metadata, recon.station_meta, FALSE),
                            !.merged = merge(recon.f_metadata, recon.station_meta, FALSE)]
    /\ UNCHANGED <<file, handler, scan, build, coll>>

\* lines 107-111: f.metadata = f.metadata.best_meta_for_depth(Depth(...))
BestMetaForDepth ==
    /\ recon.pc = "merged"
    /\ recon' = [recon EXCEPT !.pc = "reconciled",
                            !.f_metadata = best_for_instrument(recon.f_metadata),
                            !.reconciled = best_for_instrument(recon.f_metadata)]
    /\ UNCHANGED <<file, handler, scan, build, coll>>

\* the reconciliation run once more on the reconciled metadata
BestMetaForDepthAgain ==
    /\ recon.pc = "reconciled"
    /\ recon' = [recon EXCEPT !.pc = "again",
                            !.f_metadata = best_for_instrument(recon.f_metadata)]
    /\ UNCHANGED <<file, handler, scan, build, coll>>

NextMeta == MergeStationMeta \/ BestMetaForDepth \/ BestMetaForDepthAgain

SpecMeta == InitMeta /\ [][NextMeta]_vars

\* the depth the reconciliation is run for: the sensor's own
sensor_depth == depth_of(recon.made, "instrument")
\* the entries the reconciled metadata holds for a key
selected(k) == candidates(recon.reconciled, k)
tagged(cs) == {i \in 1..Len(cs) : cs[i].depth # NoDepth}
enclosing(cs, d) == {i \in tagged(cs) : encloses(cs[i].depth, d)}

\* C13: after the reconciliation for the sensor depth d, every key of the
\* merged metadata with a depth-tagged candidate that encloses d has for its
\* one selected entry an enclosing candidate that no enclosing candidate
\* undercuts in interval length and that comes first among the enclosing
\* candidates of that length.
C13_TightestEnclosing ==
    recon.pc \in {"reconciled", "again"}
    => \A k \in Range(keys(recon.merged)) :
          enclosing(candidates(recon.merged, k), sensor_depth) # {}
          => \E i \in enclosing(candidates(recon.merged, k), sensor_depth) :
                /\ selected(k) = <<candidates(recon.merged, k)[i]>>
                /\ \A j \in enclosing(candidates(recon.merged, k), sensor_depth) :
                      \/ length(candidates(recon.merged, k)[i].depth)
                            < length(candidates(recon.merged, k)[j].depth)
                      \/ /\ length(candidates(recon.merged, k)[i].depth)
                              = length(candidates(recon.merged, k)[j].depth)
                         /\ i <= j

\* a sensor at [0.05, 0.10] with clay fraction candidates at [0, 0.3],
\* [0.05, 0.15] and [0, 0.1]: the second one is selected
C13_Witness ==
    /\ recon.pc = "reconciled"
    /\ sensor_depth = Depth(5, 10)
    /\ recon.station_meta = <<MetaVar("clay_fraction", Num(1), Depth(0, 30)),
                              MetaVar("clay_fraction", Num(2), Depth(5, 15)),
                              MetaVar("clay_fraction", Num(3), Depth(0, 10))>>
    /\ selected("clay_fraction") = <<MetaVar("clay_fraction", Num(2), Depth(5, 15))>>

\* C14: after the reconciliation for the sensor depth d, every key whose
\* depth-tagged candidates include none that encloses d and at least one
\* that overlaps d has for its one selected entry a depth-tagged candidate
\* whose overlap length with d no depth-tagged candidate of the key exceeds.
C14_GreatestOverlap ==
    recon.pc \in {"reconciled", "again"}
    => \A k \in Range(keys(recon.merged)) :
          (/\ enclosing(candidates(recon.merged, k), sensor_depth) = {}
           /\ \E i \in tagged(candidates(recon.merged, k)) :
                 overlaps(candidates(recon.merged, k)[i].depth, sensor_depth))
          => \E i \in tagged(candidates(recon.merged, k)) :
                /\ selected(k) = <<candidates(recon.merged, k)[i]>>
                /\ \A j \in tagged(candidates(recon.merged, k)) :
                      overlap(candidates(recon.merged, k)[i].depth, sensor_depth)
                         >= overlap(candidates(recon.merged, k)[j].depth, sensor_depth)

\* a sensor at [0, 0.4] with sand fraction candidates at [0.3, 1], [0, 0.1]
\* and [0, 0.3]: the third one, with the overlap 0.3, is selected
C14_Witness ==
    /\ recon.pc = "reconciled"
    /\ sensor_depth = Depth(0, 40)
    /\ recon.station_meta = <<MetaVar("sand_fraction", Num(1), Depth(30, 100)),
                              MetaVar("sand_fraction", Num(2), Depth(0, 10)),
                              MetaVar("sand_fraction", Num(3), Depth(0, 30))>>
    /\ selected("sand_fraction") = <<MetaVar("sand_fraction", Num(3), Depth(0, 30))>>

\* C15: after the reconciliation for the sensor depth d, every key that has
\* depth-tagged candidates none of which has a point in common with d still
\* has exactly one selected entry, a depth-tagged candidate whose midpoint
\* no depth-tagged candidate of the key has closer to the midpoint of d.
C15_ClosestMidpoint ==
    recon.pc \in {"reconciled", "again"}
    => \A k \in Range(keys(recon.merged)) :
          (/\ tagged(candidates(recon.merged, k)) # {}
           /\ \A i \in tagged(candidates(recon.merged, k)) :
                 ~overlaps(candidates(recon.merged, k)[i].depth, sensor_depth))
          => \E i \in tagged(candidates(recon.merged, k)) :
                /\ selected(k) = <<candidates(recon.merged, k)[i]>>
                /\ \A j \in tagged(candidates(recon.merged, k)) :
                      mid_distance(candidates(recon.merged, k)[i].depth, sensor_depth)
                         <= mid_distance(candidates(recon.merged, k)[j].depth, sensor_depth)

\* a sensor at [0, 0.05] with clay fraction candidates at [0.3, 1] and
\* [0.1, 0.3]: the second one, the closer, is selected
C15_Witness ==
    /\ recon.pc = "reconciled"
    /\ sensor_depth = Depth(0, 5)
    /\ recon.station_meta = <<MetaVar("clay_fraction", Num(1), Depth(30, 100)),
                              MetaVar("clay_fraction", Num(2), Depth(10, 30))>>
    /\ selected("clay_fraction") = <<MetaVar("clay_fraction", Num(2), Depth(10, 30))>>

\* C16: after the reconciliation every key of the merged metadata has
\* exactly one selected entry, one of the key's candidates, and that entry
\* is without depth only when the key has no depth-tagged candidate.
C16_DepthlessLast ==
    recon.pc \in {"reconciled", "again"}
    => \A k \in Range(keys(recon.merged)) :
          /\ Len(selected(k)) = 1
          /\ selected(k)[1] \in Range(candidates(recon.merged, k))
          /\ selected(k)[1].depth = NoDepth => tagged(candidates(recon.merged, k)) = {}

\* a depth-less candidate first, then one at [0.3, 1] that a sensor at
\* [0, 0.05] does not meet: the second one is selected; and a key with
\* depth-less candidates only keeps one of them
C16_Witness ==
    /\ recon.pc = "reconciled"
    /\ sensor_depth = Depth(0, 5)
    /\ recon.station_meta = <<MetaVar("clay_fraction", Num(1), NoDepth),
                              MetaVar("clay_fraction", Num(2), Depth(30, 100)),
                              MetaVar("sand_fraction", Num(3), NoDepth)>>
    /\ selected("clay_fraction") = <<MetaVar("clay_fraction", Num(2), Depth(30, 100))>>
    /\ selected("sand_fraction") = <<MetaVar("sand_fraction", Num(3), NoDepth)>>

\* C17: the reconciliation run a second time for the same depth on the
\* reconciled metadata returns the reconciled metadata: the same keys in
\* the same order with the same values and depths.
C17_Idempotent ==
    recon.pc = "again" => recon.f_metadata = recon.reconciled

\* the second run had something to leave alone: the first one had dropped
\* candidates
C17_Witness ==
    /\ recon.pc = "again"
    /\ Len(recon.reconciled) < Len(recon.merged)
    /\ Len(recon.reconciled) = 4
    /\ recon.f_metadata = recon.reconciled

\* C20 (as claimed): the merge of the station's metadata into the metadata of
\* a sensor file leaves the MetaData object of the file as DataFile made it.
C20_MergeLeavesInputs == recon.pc = "merged" => recon.f_metadata = recon.made

----------------------------------------------------------------------------
(* SpecDepth: two depths compared, over all intervals with start <= end    *)
(* between MaxDepth hundredths above and below the surface                 *)

MaxDepth == 2

Depths == {Depth(start, end) : start, end \in -MaxDepth..MaxDepth}

InitDepth ==
    /\ \E a, b \in {x \in Depths : x[1] <= x[2]} :
          recon = [pc |-> "depths", a |-> a, b |-> b, encloses |-> FALSE, overlap |-> 0]
    /\ file = Idle
    /\ handler = Idle
    /\ scan = Idle
    /\ build = Idle
    /\ coll = Idle

\* a.encloses(b) and a.overlap(b)
DepthCompare ==
    /\ recon.pc = "depths"
    /\ recon' = [recon EXCEPT !.pc = "compared",
                              !.encloses = encloses(recon.a, recon.b),
                              !.overlap = overlap(recon.a, recon.b)]
    /\ UNCHANGED <<file, handler, scan, build, coll>>

NextDepth == DepthCompare

SpecDepth == InitDepth /\ [][NextDepth]_vars

\* C18: for depths a and b with start <= end, when a.encloses(b) then
\* a.overlap(b) is the length of b.
C18_EnclosedOverlap ==
    (recon.pc = "compared" /\ recon.encloses) => recon.overlap = recon.b[2] - recon.b[1]

\* a encloses a point depth b inside it, and the overlap is 0
C18_Witness ==
    /\ recon.pc = "compared" /\ recon.encloses
    /\ recon.a[1] < recon.b[1] /\ recon.b[1] = recon.b[2] /\ recon.b[2] < recon.a[2]
    /\ recon.overlap = 0

----------------------------------------------------------------------------
(* SpecMerge: three MetaData merged in both groupings, A and B of up to    *)
(* MaxEntries entries and C of at most one, in either mode of merge        *)

MaxEntries == 2

\* the entries MetaData number x may hold: a value that tells x or the null
\* placeholder, without depth or at [0, 0.3]
Entries(x) ==
    {MetaVar("clay_fraction", v, d) : v \in {Num(x), NaN}, d \in {NoDepth, Depth(0, 30)}}
MetaDatas(x, n) == UNION {[1..m -> Entries(x)] : m \in 0..n}

InitMerge ==
    /\ \E A \in MetaDatas(1, MaxEntries), B \in MetaDatas(2, MaxEntries), C \in MetaDatas(3, 1),
          exclude_empty \in BOOLEAN :
          recon = [pc |-> "inputs", A |-> A, B |-> B, C |-> C, exclude_empty |-> exclude_empty,
                   left |-> <<>>, right |-> <<>>]
    /\ file = Idle
    /\ handler = Idle
    /\ scan = Idle
    /\ build = Idle
    /\ coll = Idle

\* A.merge(B).merge(C)
MergeLeftFirst ==
    /\ recon.pc = "inputs"
    /\ recon' = [recon EXCEPT !.pc = "left",
                              !.left = merge(merge(recon.A, recon.B, recon.exclude_empty),
                                             recon.C, recon.exclude_empty)]
    /\ UNCHANGED <<file, handler, scan, build, coll>>

\* A.merge(B.merge(C))
MergeRightFirst ==
    /\ recon.pc = "left"
    /\ recon' = [recon EXCEPT !.pc = "both",
                              !.right = merge(recon.A,
                                              merge(recon.B, recon.C, recon.exclude_empty),
                                              recon.exclude_empty)]
    /\ UNCHANGED <<file, handler, scan, build, coll>>

NextMerge == MergeLeftFirst \/ MergeRightFirst

SpecMerge == InitMerge /\ [][NextMerge]_vars

\* the entries of md that are not null placeholders
informative(md) == SelectSeq(md, LAMBDA v : v.val # NaN)

\* C19 (as claimed): both groupings of the merge of A, B and C hold every
\* entry of A, then every entry of B, then every entry of C.
C19_EveryCandidateKept ==
    recon.pc = "both"
    => /\ recon.left = recon.right
       /\ recon.left = recon.A \o recon.B \o recon.C

\* C19: both groupings of the merge of A, B and C are the same MetaData:
\* every entry of A, then the entries of B, then the entries of C, none
\* overwritten, where the exclude_empty mode leaves out the entries of B
\* and of C whose value is the null placeholder and the other mode none.
C19_MergeAssociative ==
    recon.pc = "both"
    => /\ recon.left = recon.right
       /\ recon.left =
             recon.A \o (IF recon.exclude_empty THEN informative(recon.B) ELSE recon.B)
                     \o (IF recon.exclude_empty THEN informative(recon.C) ELSE recon.C)

\* the exclude_empty mode with a placeholder in A, which is kept, and one
\* in B, which is left out, next to B's and C's entries for the same key
C19_Witness ==
    /\ recon.pc = "both" /\ recon.exclude_empty
    /\ recon.A = <<MetaVar("clay_fraction", NaN, NoDepth), MetaVar("clay_fraction", Num(1), Depth(0, 30))>>
    /\ recon.B = <<MetaVar("clay_fraction", NaN, Depth(0, 30)), MetaVar("clay_fraction", Num(2), Depth(0, 30))>>
    /\ recon.C = <<MetaVar("clay_fraction", Num(3), NoDepth)>>
    /\ recon.left = recon.A \o <<recon.B[2]>> \o recon.C
    /\ recon.right = recon.left

----------------------------------------------------------------------------
(* SpecFilter: the file list of the data frame collection, of up to        *)
(* MaxRows rows, and one filter call on it (old_filecollection.py)         *)

MaxRows == 3

\* a handler as the scan leaves it: the sensor depth on variable and
\* instrument, a land cover class, and for some a key of a custom reader
sample_handler(d, lc, custom) ==
    [file_path |-> "NWA/S1/a.stm", file_type |-> "header_values",
     metadata |-> << MetaVar("network", Str("NWA"), NoDepth),
                     MetaVar("station", Str("S1"), NoDepth),
                     MetaVar("variable", Str("soil_moisture"), d),
                     MetaVar("instrument", Str("Probe"), d),
                     MetaVar("lc_2010", lc, NoDepth) >>
                  \o (IF custom THEN from_dict(<< <<"custom", Str("tower")>> >>) ELSE <<>>)]

SensorLayers == {Depth(0, 5), Depth(5, 10), Depth(5, 30)}
SampleHandlers ==
    {sample_handler(d, lc, FALSE) : d \in SensorLayers, lc \in {Num(float("10")), Num(float("2"))}}
    \cup {sample_handler(d, Num(float("10")), TRUE) : d \in SensorLayers}

\* the row of the data frame for handler f, index being its label
file_row(index, f) ==
    [index |-> index,
     sensor_depth_from |-> depth_of(f.metadata, "instrument")[1],
     sensor_depth_to |-> depth_of(f.metadata, "instrument")[2],
     filehandler |-> f]

\* the frames self.files may be: rows labelled 0, 1, ... (reset_index)
Frames ==
    UNION {{[i \in 1..n |-> file_row(i - 1, hs[i])] : hs \in [1..n -> SampleHandlers]} :
              n \in 0..MaxRows}

\* the filter_dict arguments: a dict is a sequence of <<key, allowed values>>
FilterDicts ==
    { <<>>,
      << <<"lc_2010", <<Num(float("10"))>> >> >>,
      << <<"lc_2010", <<Num(float("2")), Num(float("10"))>> >> >>,
      << <<"lc_2010", <<>> >> >>,
      << <<"lc_2010", <<Str("10")>> >> >>,
      << <<"custom", <<Str("tower")>> >> >>,
      << <<"lc_2010", <<Num(float("2"))>> >>, <<"variable", <<Str("soil_moisture")>> >> >>,
      << <<"lc_2010", <<Num(float("10"))>> >>, <<"custom", <<Str("mast"), Str("tower")>> >> >>,
      << <<"variable", <<Str("soil_temperature")>> >>, <<"lc_2010", <<Num(float("10"))>> >> >> }

\* a depth bound: <<>> is the default (-np.inf or np.inf), <<n>> the number n
DepthBounds == {<<>>, <<0>>, <<5>>, <<10>>}
greater_equal(x, bound) == bound = <<>> \/ x >= bound[1]
less_equal(x, bound) == bound = <<>> \/ x <= bound[1]

\* val in np.atleast_1d(meta_vals), for meta_vals of one type: == on the
\* elements, which nan never satisfies
in_values(val, meta_vals) ==
    val.t # "nan" /\ \E i \in 1..Len(meta_vals) : meta_vals[i] = val

\* a filter that keeps a handler when one of the keys matches
filter_metadata_any(frame, filter_dict) ==
    IF \E r \in 1..Len(frame), k \in 1..Len(filter_dict) :
          ~contains(frame[r].filehandler.metadata, filter_dict[k][1])
    THEN [raised |-> "ValueError", rows |-> <<>>]
    ELSE [raised |-> "",
          rows |-> SelectSeq(frame, LAMBDA row :
                      \E k \in 1..Len(filter_dict) :
                         in_values(val_of(row.filehandler.metadata, filter_dict[k][1]),
                                   filter_dict[k][2]))]

\* IsmnFileCollection.filter_metadata(filter_dict): the ValueError of the
\* first handler without one of the keys, or the rows whose mask is True
filter_metadata(frame, filter_dict) ==
    IF \E r \in 1..Len(frame), k \in 1..Len(filter_dict) :
          ~contains(frame[r].filehandler.metadata, filter_dict[k][1])
    THEN [raised |-> "ValueError", rows |-> <<>>]
    ELSE [raised |-> "",
          rows |-> SelectSeq(frame, LAMBDA row :
                      \A k \in 1..Len(filter_dict) :
                         in_values(val_of(row.filehandler.metadata, filter_dict[k][1]),
                                   filter_dict[k][2]))]

\* a filter that takes the upper bound on sensor_depth_to in either mode
filter_depth_to_only(frame, min_depth, max_depth, only_consider_depth_from) ==
    [raised |-> "",
     rows |-> SelectSeq(frame, LAMBDA row :
                 /\ greater_equal(row.sensor_depth_from, min_depth)
                 /\ less_equal(row.sensor_depth_to, max_depth))]

\* IsmnFileCollection.filter_depth(min_depth, max_depth, only_consider_depth_from)
filter_depth(frame, min_depth, max_depth, only_consider_depth_from) ==
    [raised |-> "",
     rows |-> SelectSeq(frame, LAMBDA row :
                 /\ greater_equal(row.sensor_depth_from, min_depth)
                 /\ less_equal(IF only_consider_depth_from THEN row.sensor_depth_from
                                ELSE row.sensor_depth_to, max_depth))]

InitFilter ==
    /\ \E frame \in Frames :
          coll = [pc |-> "ready", files |-> frame, given |-> frame, op |-> "",
                  filter_dict |-> <<>>, min_depth |-> <<>>, max_depth |-> <<>>,
                  only_consider_depth_from |-> FALSE, raised |-> "", rows |-> <<>>]
    /\ file = Idle
    /\ handler = Idle
    /\ scan = Idle
    /\ build = Idle
    /\ recon = Idle

FilterMetadata ==
    /\ coll.pc = "ready"
    /\ \E filter_dict \in FilterDicts :
          coll' = [coll EXCEPT !.pc = "called", !.op = "filter_metadata",
                              !.filter_dict = filter_dict,
                              !.raised = filter_metadata(coll.files, filter_dict).raised,
                              !.rows = filter_metadata(coll.files, filter_dict).rows]
    /\ UNCHANGED <<file, handler, scan, build, recon>>

FilterDepth ==
    /\ coll.pc = "ready"
    /\ \E min_depth \in DepthBounds, max_depth \in DepthBounds, only \in BOOLEAN :
          coll' = [coll EXCEPT !.pc = "called", !.op = "filter_depth",
                              !.min_depth = min_depth, !.max_depth = max_depth,
                              !.only_consider_depth_from = only,
                              !.rows = filter_depth(coll.files, min_depth, max_depth, only).rows]
    /\ UNCHANGED <<file, handler, scan, build, recon>>

NextFilter == FilterMetadata \/ FilterDepth

SpecFilter == InitFilter /\ [][NextFilter]_vars

\* rows are rows of the frame, each once, in the order of the frame
in_frame_order(rows, frame) ==
    /\ \A i \in 1..Len(rows) : frame[rows[i].index + 1] = rows[i]
    /\ \A i, j \in 1..Len(rows) : i < j => rows[i].index < rows[j].index
labels(rows) == {rows[i].index : i \in 1..Len(rows)}

\* C22: filter_metadata(filter_dict) raises ValueError when some handler of
\* the collection lacks a key of filter_dict; otherwise it returns, in the
\* order of the collection, exactly the rows whose handler has for every key
\* of filter_dict a value among the allowed ones; the collection is the one
\* it was before the call.
C22_FilterMetadata ==
    (coll.pc = "called" /\ coll.op = "filter_metadata")
    => /\ coll.files = coll.given
       /\ IF \E r \in 1..Len(coll.files), k \in 1..Len(coll.filter_dict) :
                \A m \in 1..Len(coll.files[r].filehandler.metadata) :
                   coll.files[r].filehandler.metadata[m].name # coll.filter_dict[k][1]
          THEN coll.raised = "ValueError"
          ELSE /\ coll.raised = ""
               /\ in_frame_order(coll.rows, coll.files)
               /\ labels(coll.rows) =
                     {r - 1 : r \in {r \in 1..Len(coll.files) :
                        \A k \in 1..Len(coll.filter_dict) :
                           val_of(coll.files[r].filehandler.metadata, coll.filter_dict[k][1])
                              \in Range(coll.filter_dict[k][2])}}

\* lc_2010 = 10 asked of three handlers, the first and the last of which
\* carry it: rows 0 and 2 are returned
C22_Witness ==
    /\ coll.pc = "called" /\ coll.op = "filter_metadata"
    /\ coll.filter_dict = << <<"lc_2010", <<Num(1000)>> >> >>
    /\ Len(coll.files) = 3
    /\ val_of(coll.files[2].filehandler.metadata, "lc_2010") = Num(200)
    /\ coll.raised = ""
    /\ coll.rows = <<coll.files[1], coll.files[3]>>

-----------------------------------------------------------------------------
(* The query surface of IsmnFileCollection: get_filehandler and            *)
(* iter_filehandlers on a collection.  coll is                             *)
(* [pc, filelist, op, idx, networks, found, f, yielded].                   *)

\* the handlers one network of a collection holds, at most
MaxPerNet == 3

\* the handler of file k of network net
net_handler(net, k) == [file_path |-> <<net, k>>, file_type |-> "ceop_sep",
                        metadata |-> <<MetaVar("network", Str(net), NoDepth)>>]

\* the list of n handlers of network net
net_entry(net, n) == [network |-> Str(net), handlers |-> [k \in 1..n |-> net_handler(net, k)]]

\* self.filelist: networks NWA and NWB in either order, one of them, or none
Collections ==
    {<<>>}
    \cup {<<net_entry(a, n)>> : a \in {"NWA", "NWB"}, n \in 1..MaxPerNet}
    \cup {<<net_entry(a[1], n), net_entry(a[2], m)>> :
            a \in {<<"NWA", "NWB">>, <<"NWB", "NWA">>}, n \in 1..MaxPerNet, m \in 1..MaxPerNet}

\* the idx a caller passes
Indices == 0..(2 * MaxPerNet)

\* lines 470-478: the loop from entry i on, fs handlers counted so far;
\* found is FALSE when the loop ends without a return (None)
RECURSIVE get_filehandler_from(_, _, _, _)
get_filehandler_from(filelist, idx, i, fs) ==
    IF i > Len(filelist) THEN [found |-> FALSE, f |-> <<>>]
    ELSE IF fs + Len(filelist[i].handlers) > idx
    THEN [found |-> TRUE, f |-> filelist[i].handlers[idx - fs + 1]]
    ELSE get_filehandler_from(filelist, idx, i + 1, fs + Len(filelist[i].handlers))

\* IsmnFileCollection.get_filehandler(idx), lines 456-478
get_filehandler(filelist, idx) == get_filehandler_from(filelist, idx, 1, 0)

InitQuery ==
    /\ \E c \in Collections :
          coll = [pc |-> "ready", filelist |-> c, op |-> "none", idx |-> 0,
                  networks |-> <<>>, found |-> FALSE, f |-> <<>>, yielded |-> <<>>]
    /\ file = Idle
    /\ handler = Idle
    /\ scan = Idle
    /\ build = Idle
    /\ recon = Idle

GetFilehandler ==
    /\ coll.pc = "ready"
    /\ \E idx \in Indices :
          coll' = [coll EXCEPT !.pc = "called", !.op = "get_filehandler", !.idx = idx,
                               !.found = get_filehandler(coll.filelist, idx).found,
                               !.f = get_filehandler(coll.filelist, idx).f]
    /\ UNCHANGED <<file, handler, scan, build, recon>>

IterFilehandlers ==
    /\ coll.pc = "ready"
    /\ \E networks \in NetworkLists :
          coll' = [coll EXCEPT !.pc = "called", !.op = "iter_filehandlers",
                               !.networks = networks,
                               !.yielded = iter_filehandlers(coll.filelist, networks)]
    /\ UNCHANGED <<file, handler, scan, build, recon>>

NextQuery == GetFilehandler \/ IterFilehandlers

SpecQuery == InitQuery /\ [][NextQuery]_vars

\* every handler of the collection, in network order
all_handlers(c) == concat([i \in 1..Len(c.filelist) |-> c.filelist[i].handlers])

\* C24 (as claimed): get_filehandler(idx) returns the handler number idx
\* of the list of all handlers of all networks in network order, numbered as
\* the example numbers them: with two networks of three handlers each, idx 4
\* is the first handler of the second network.
C24_NthHandler ==
    (coll.pc = "called" /\ coll.op = "get_filehandler"
        /\ coll.idx \in 1..Len(all_handlers(coll)))
    => /\ coll.found
       /\ coll.f = all_handlers(coll)[coll.idx]
       /\ (Len(coll.filelist) = 2 /\ Len(coll.filelist[1].handlers) = 3 /\ coll.idx = 4
             => coll.f = coll.filelist[2].handlers[1])

\* C25: iter_filehandlers(networks) yields exactly the handlers of the
\* networks named in networks, each once, in the order of the mapping and of
\* each network's list; for None it yields every handler once, for an empty
\* list nothing.
C25_IterFilehandlers ==
    (coll.pc = "called" /\ coll.op = "iter_filehandlers")
    => LET every == all_handlers(coll)
           asked(h) == \/ coll.networks = <<>>
                       \/ val_of(h.metadata, "network") \in Range(coll.networks[1])
       IN /\ \A h \in Range(coll.yielded) : h \in Range(every) /\ asked(h)
          /\ \A h \in Range(every) :
                asked(h) => Cardinality({j \in 1..Len(coll.yielded) : coll.yielded[j] = h}) = 1
          /\ \A i, j \in 1..Len(coll.yielded) :
                i < j => \E a, b \in 1..Len(every) :
                            a < b /\ every[a] = coll.yielded[i] /\ every[b] = coll.yielded[j]
          /\ (coll.networks = <<>> => coll.yielded = every)
          /\ (coll.networks = << <<>> >> => coll.yielded = <<>>)

\* a collection of two networks was asked for the second one only, and for
\* the first one by a list that names an unknown network too
C25_Witness ==
    /\ coll.pc = "called" /\ coll.op = "iter_filehandlers"
    /\ Len(coll.filelist) = 2
    /\ coll.networks # <<>>
    /\ coll.yielded # <<>>
    /\ Len(coll.yielded) < Len(all_handlers(coll))
    /\ coll.yielded[1] = coll.filelist[2].handlers[1]



-----------------------------------------------------------------------------
(* DataFile.check_metadata on a handler whose metadata is loaded.  handler *)
(* is [pc, f, variable, min_depth, max_depth, filter_static_vars, raised,  *)
(* valid].                                                                 *)

\* the variable a caller asks for
AskedVariables == {"soil_moisture", "soil_temperature"}

\* min_depth and max_depth: <<>> is None, <<n>> the number n
MinDepths == {<<>>, <<0>>, <<5>>}
MaxDepths == {<<>>, <<5>>, <<10>>, <<30>>}

\* filter_static_vars: <<>> is None, else the items of the dict in its order
StaticFilters ==
    { <<>>,
      << <<"lc_2010", Num(float("10"))>> >>,
      << <<"lc_2010", Num(float("2"))>> >>,
      << <<"network", Str("NWA")>> >>,
      << <<"lc_2010", Num(float("2"))>>, <<"custom", Str("tower")>> >> }

lc_cl == {CSV_META_TEMPLATE[i][1] : i \in 1..Len(CSV_META_TEMPLATE)}

\* Depth(min_depth, max_depth).encloses(sensor_depth), line 578: <<>> for
\* min_depth is -np.inf (line 567), for max_depth it is np.inf
encloses_sensor(min_depth, max_depth, depth) ==
    /\ (min_depth = <<>> \/ min_depth[1] <= depth[1])
    /\ (max_depth = <<>> \/ max_depth[1] >= depth[2])

\* DataFile.check_metadata, lines 543-592.  A max_depth of None becomes the
\* function np.info (line 569), with which Depth(min_depth, max_depth) at
\* line 578 raises TypeError.
check_metadata(f, variable, min_depth, max_depth, filter_static_vars) ==
    IF val_of(f.metadata, "variable") # Str(variable)
    THEN [raised |-> "", valid |-> FALSE]
    ELSE IF max_depth = <<>>
    THEN [raised |-> "TypeError", valid |-> FALSE]
    ELSE IF ~encloses_sensor(min_depth, max_depth, depth_of(f.metadata, "instrument"))
    THEN [raised |-> "", valid |-> FALSE]
    ELSE IF \E i \in 1..Len(filter_static_vars) : filter_static_vars[i][1] \notin lc_cl
    THEN [raised |-> "ValueError", valid |-> FALSE]
    ELSE [raised |-> "",
          valid |-> \A i \in 1..Len(filter_static_vars) :
                       val_of(f.metadata, filter_static_vars[i][1]) = filter_static_vars[i][2]]

InitCheck ==
    /\ \E f \in SampleHandlers :
          handler = [pc |-> "loaded", f |-> f, variable |-> "", min_depth |-> <<>>,
                     max_depth |-> <<>>, filter_static_vars |-> <<>>,
                     raised |-> "", valid |-> FALSE]
    /\ file = Idle
    /\ scan = Idle
    /\ build = Idle
    /\ recon = Idle
    /\ coll = Idle

CheckMetadata ==
    /\ handler.pc = "loaded"
    /\ \E variable \in AskedVariables, min_depth \in MinDepths, max_depth \in MaxDepths,
          filter_static_vars \in StaticFilters :
          handler' = [handler EXCEPT
                        !.pc = "checked", !.variable = variable,
                        !.min_depth = min_depth, !.max_depth = max_depth,
                        !.filter_static_vars = filter_static_vars,
                        !.raised = check_metadata(handler.f, variable, min_depth, max_depth,
                                                  filter_static_vars).raised,
                        !.valid = check_metadata(handler.f, variable, min_depth, max_depth,
                                                 filter_static_vars).valid]
    /\ UNCHANGED <<file, scan, build, recon, coll>>

NextCheck == CheckMetadata

SpecCheck == InitCheck /\ [][NextCheck]_vars

\* the three conditions of check_metadata for the call recorded in h, None
\* for a bound taking the bound away
complies(h) ==
    /\ val_of(h.f.metadata, "variable") = Str(h.variable)
    /\ (h.min_depth = <<>> \/ h.min_depth[1] <= depth_of(h.f.metadata, "instrument")[1])
    /\ (h.max_depth = <<>> \/ h.max_depth[1] >= depth_of(h.f.metadata, "instrument")[2])
    /\ \A i \in 1..Len(h.filter_static_vars) :
          /\ contains(h.f.metadata, h.filter_static_vars[i][1])
          /\ val_of(h.f.metadata, h.filter_static_vars[i][1]) = h.filter_static_vars[i][2]

\* C27 (as claimed): check_metadata returns True exactly when the variable
\* is the one asked for, [min_depth, max_depth] encloses the instrument
\* depth and every key of filter_static_vars has the value given, None for
\* min_depth or max_depth taking that bound away; a filter key outside the
\* static metadata template raises ValueError, once the variable and the
\* depth are as asked.
C27_CheckMetadata ==
    handler.pc = "checked"
    => IF \A i \in 1..Len(handler.filter_static_vars) :
             handler.filter_static_vars[i][1] \in lc_cl
       THEN handler.raised = "" /\ handler.valid = complies(handler)
       ELSE \/ handler.raised = "ValueError"
            \/ handler.raised = "" /\ ~handler.valid /\ ~complies(handler)



-----------------------------------------------------------------------------
(* The scratch directories of the reads from a zip archive.  file is       *)
(* [pc, zip, kind, tempdir, dirs, copies, made, log]: dirs are the scratch *)
(* directories under temp_root, copies the extracted files as              *)
(* <<directory, kind>>, log the reads that are over.                       *)

\* the reads one handler's life is followed for
MaxReads == 3

\* the reads that extract: the lines of a sensor file (_get_elements_from_file),
\* its payload (DataFile._read_csv) and a station attribute file
\* (StaticMetaFile.read_metadata)
ReadKinds == {"lines", "payload", "static"}

\* a with block left without removing the directory when the body raised
exit_tempdir_unless_raised(st, raised) ==
    IF raised THEN st
    ELSE [st EXCEPT !.dirs = @ \ {st.tempdir},
                    !.copies = {c \in @ : c[1] # st.tempdir}]

\* TemporaryDirectory.__exit__ at the end of the with block, left by the
\* last statement or by an exception: the directory and what is in it go
exit_tempdir(st, raised) ==
    [st EXCEPT !.dirs = @ \ {st.tempdir},
               !.copies = {c \in @ : c[1] # st.tempdir}]

\* the read is over
finished(st, raised) ==
    [st EXCEPT !.pc = "ready",
               !.log = Append(@, [kind |-> st.kind, zip |-> st.zip,
                                  tempdir |-> st.tempdir, raised |-> raised])]

InitTemp ==
    /\ file = [pc |-> "ready", zip |-> FALSE, kind |-> "", tempdir |-> 0,
               dirs |-> {}, copies |-> {}, made |-> 0, log |-> <<>>]
    /\ handler = Idle
    /\ scan = Idle
    /\ build = Idle
    /\ recon = Idle
    /\ coll = Idle

\* if self.root.zip: with TemporaryDirectory(prefix='ismn', dir=self.temp_root)
\* makes a new directory; else the file is read where it is
EnterRead ==
    /\ file.pc = "ready"
    /\ Len(file.log) < MaxReads
    /\ \E kind \in ReadKinds, zip \in BOOLEAN :
          file' = IF zip
                  THEN [file EXCEPT !.pc = "entered", !.zip = TRUE, !.kind = kind,
                                    !.tempdir = file.made + 1, !.made = @ + 1,
                                    !.dirs = @ \cup {file.made + 1}]
                  ELSE [file EXCEPT !.pc = "direct", !.zip = FALSE, !.kind = kind,
                                    !.tempdir = 0]
    /\ UNCHANGED <<handler, scan, build, recon, coll>>

\* self.root.extract_file(self.file_path, tempdir): the copy is in tempdir,
\* or the extraction raises and the with block is left
ExtractFile ==
    /\ file.pc = "entered"
    /\ \E raised \in BOOLEAN :
          file' = IF raised
                  THEN finished(exit_tempdir(file, TRUE), TRUE)
                  ELSE [file EXCEPT !.pc = "extracted",
                                    !.copies = @ \cup {<<file.tempdir, file.kind>>}]
    /\ UNCHANGED <<handler, scan, build, recon, coll>>

\* the copy is read (_read_lines, pd.read_csv) and the with block is left
ReadCopy ==
    /\ file.pc = "extracted"
    /\ \E raised \in BOOLEAN :
          file' = finished(exit_tempdir(file, raised), raised)
    /\ UNCHANGED <<handler, scan, build, recon, coll>>

\* the file of an archive that is a folder is read in its place
ReadInPlace ==
    /\ file.pc = "direct"
    /\ \E raised \in BOOLEAN : file' = finished(file, raised)
    /\ UNCHANGED <<handler, scan, build, recon, coll>>

NextTemp == EnterRead \/ ExtractFile \/ ReadCopy \/ ReadInPlace

SpecTemp == InitTemp /\ [][NextTemp]_vars

\* C29: every copy extracted from a zip archive is in a scratch directory
\* that exists only while its read runs; when a read is over, by its last
\* statement or by an exception, its scratch directory is gone, so that after
\* any sequence of reads no scratch directory of a read that is over is left.
C29_ScratchRemoved ==
    /\ \A c \in file.copies : c[1] \in file.dirs
    /\ \A k \in 1..Len(file.log) : file.log[k].tempdir \notin file.dirs
    /\ file.pc = "ready" => file.dirs = {} /\ file.copies = {}
    /\ file.pc \in {"entered", "extracted"} => file.dirs = {file.tempdir}

\* three reads from a zip archive are over, one that raised while its copy
\* was read and one that went well among them
C29_Witness ==
    /\ file.pc = "ready"
    /\ Len(file.log) = MaxReads
    /\ \A k \in 1..Len(file.log) : file.log[k].zip
    /\ \E k \in 1..Len(file.log) : file.log[k].raised
    /\ \E k \in 1..Len(file.log) : ~file.log[k].raised
    /\ file.made = MaxReads


=============================================================================
